---- MODULE Spec2Model ----
(***************************************************************************)
(* A model of the whip-8 CHIP-8 interpreter core: the instruction decoder  *)
(* (interpreter/src/instructions.rs), the value types                      *)
(* (interpreter/src/types.rs), the display (interpreter/src/display.rs)    *)
(* and the processor's fetch / decode / execute step                       *)
(* (interpreter/src/processor.rs).                                         *)
(***************************************************************************)
EXTENDS Integers, Sequences, FiniteSets, TLC

VARIABLES
    memory,            \* Processor.memory: [u8; MEMORY_SIZE_BYTES], index 0..4094
    general,           \* Registers.general: [u8; 16], index 0..15
    i,                 \* Registers.i: Address
    delay,             \* Registers.delay: u8
    sound,             \* Registers.sound: u8
    stack,             \* Processor.stack: [Address; STACK_SIZE], index 0..15
    stack_pointer,     \* Processor.stack_pointer: usize
    program_counter,   \* Processor.program_counter: Address (its raw u16)
    display_buffer,    \* Display.display_buffer: row-major Grid<Pixel>
    dirty,             \* Display.dirty
    result,            \* what the last step() call returned (or that it panicked)
    steps,             \* number of step() calls made so far
    call_depth,        \* calls made and not yet returned from (successful Call - Return)
    instruction_bytes, \* the decoder's input: an InstructionBytePair (u16)
    instruction,       \* the decoder's output: Option<Instruction>
    program_bytes,     \* the Vec<u8> given to Processor::new
    keys_status,       \* Keys.keys_status: [KeyStatus; NUM_KEYS], index 0..15
    calls,             \* the calls made on a Display, Keys or Registers of its
                       \* own, in order, each with what it returned
    cli                \* the threads of the cli binary: the shared exit_requested
                       \* flag, where main and each thread's loop stand, and
                       \* the frames sent on the frame channel

vars == <<memory, general, i, delay, sound, stack, stack_pointer, program_counter,
          display_buffer, dirty, result, steps, call_depth, instruction_bytes,
          instruction, program_bytes, keys_status, calls, cli>>

procVars == <<memory, general, i, delay, sound, stack, stack_pointer, program_counter,
              display_buffer, dirty>>

\* the variables of the objects that are driven through their own methods
apiVars == <<keys_status, calls, cli>>

\* no processor has been constructed
NoProcessor == "no processor"

\* no Keys and no call history: the processor is stepped as a whole
NoApi == keys_status = NoProcessor /\ calls = << >> /\ cli = NoProcessor

(***************************************************************************)
(* Program constants                                                       *)
(***************************************************************************)
MEMORY_SIZE_BYTES == 4095
STACK_SIZE == 16
PROGRAM_START == 512
MAX_PROGRAM_BYTES == MEMORY_SIZE_BYTES - PROGRAM_START
HEX_SPRITE_STRIDE == 5
NUM_GENERAL_REGISTERS == 16
DISPLAY_WIDTH == 64
DISPLAY_HEIGHT == 32

HEX_SPRITE_DATA ==
    << 240, 144, 144, 144, 240,
        32,  96,  32,  32, 112,
       240,  16, 240, 128, 240,
       240,  16, 240,  16, 240,
       144, 144, 240,  16,  16,
       240, 128, 240,  16, 240,
       240, 128, 240, 144, 240,
       240,  16,  32,  64,  64,
       240, 144, 240, 144, 240,
       240, 144, 240,  16, 240,
       240, 144, 240, 144, 144,
       224, 144, 224, 144, 224,
       240, 128, 128, 128, 240,
       224, 144, 144, 144, 224,
       240, 128, 240, 128, 240,
       240, 128, 240, 128, 128 >>

(***************************************************************************)
(* Machine integers                                                        *)
(***************************************************************************)
Pow2(n) == 2 ^ n

U8(n) == n % 256

RECURSIVE BitAnd(_, _)
BitAnd(a, b) ==
    IF a = 0 \/ b = 0 THEN 0
    ELSE (IF a % 2 = 1 /\ b % 2 = 1 THEN 1 ELSE 0) + 2 * BitAnd(a \div 2, b \div 2)

RECURSIVE BitOr(_, _)
BitOr(a, b) ==
    IF a = 0 THEN b
    ELSE IF b = 0 THEN a
    ELSE (IF a % 2 = 1 \/ b % 2 = 1 THEN 1 ELSE 0) + 2 * BitOr(a \div 2, b \div 2)

RECURSIVE BitXor(_, _)
BitXor(a, b) ==
    IF a = 0 THEN b
    ELSE IF b = 0 THEN a
    ELSE (IF (a % 2) # (b % 2) THEN 1 ELSE 0) + 2 * BitXor(a \div 2, b \div 2)

ShiftRightBy(a, n) == a \div Pow2(n)

(***************************************************************************)
(* types.rs: Address, Nibble, GeneralRegister                              *)
(***************************************************************************)
\* The value of a match that fell through to unreachable!(): no Nibble at all.
Unreachable == 0 - 1

\* impl From<u16> for Address: Address(value & 0x0FFF)
AddressFrom(value) == BitAnd(value, \H0FFF)

\* Address::increment: Address(self.0 + value as u16), no mask is applied
AddressIncrement(addr, value) == addr + value

\* Nibble::from_upper with the ">> 4" left out
NibbleFromUpper_NoShift(byte) ==
    LET n == BitAnd(byte, \HF0)
    IN  IF n \in 0..15 THEN n ELSE Unreachable

\* Nibble::from_upper: match (byte & 0xF0) >> 4 { 0..=15 => .., _ => unreachable!() }
NibbleFromUpper(byte) ==
    LET n == ShiftRightBy(BitAnd(byte, \HF0), 4)
    IN  IF n \in 0..15 THEN n ELSE Unreachable

\* Nibble::from_lower: match byte & 0x0F { 0..=15 => .., _ => unreachable!() }
NibbleFromLower(byte) ==
    LET n == BitAnd(byte, \H0F)
    IN  IF n \in 0..15 THEN n ELSE Unreachable

\* impl From<Nibble> for GeneralRegister: register Vn for nibble n
RegisterFromNibble(n) == n

(***************************************************************************)
(* instructions.rs: InstructionBytePair and decode                         *)
(***************************************************************************)
\* InstructionBytePair::get_upper_byte: ((self.0 & 0xFF00) >> 8) as u8
GetUpperByte(bytes) == U8(ShiftRightBy(BitAnd(bytes, \HFF00), 8))

\* InstructionBytePair::get_lower_byte: (self.0 & 0x00FF) as u8
GetLowerByte(bytes) == U8(BitAnd(bytes, \H00FF))

\* Option::None returned by decode
None == [op |-> "None"]

\* decode has not been called
Undecoded == [op |-> "Undecoded"]

\* decode did not return: a match reached unreachable!()
DecodePanicked == [op |-> "Panicked"]

XReg(bytes) == RegisterFromNibble(NibbleFromLower(GetUpperByte(bytes)))

YReg(bytes) == RegisterFromNibble(NibbleFromUpper(GetLowerByte(bytes)))

\* handle_zero without the arm of 0x00EE
handle_zero_NoReturn(bytes) ==
    CASE bytes = \H00E0 -> [op |-> "Clear"]
      [] OTHER -> [op |-> "Sys", addr |-> AddressFrom(bytes)]

handle_zero(bytes) ==
    CASE bytes = \H00E0 -> [op |-> "Clear"]
      [] bytes = \H00EE -> [op |-> "Return"]
      [] OTHER -> [op |-> "Sys", addr |-> AddressFrom(bytes)]

handle_one(bytes) == [op |-> "Jump", addr |-> AddressFrom(BitAnd(bytes, \H0FFF))]

handle_two(bytes) == [op |-> "Call", addr |-> AddressFrom(BitAnd(bytes, \H0FFF))]

handle_three(bytes) ==
    [op |-> "SkipIfEqByte", reg |-> XReg(bytes), value |-> GetLowerByte(bytes)]

handle_four(bytes) ==
    [op |-> "SkipIfNeqByte", reg |-> XReg(bytes), value |-> GetLowerByte(bytes)]

handle_five(bytes) ==
    IF NibbleFromLower(GetLowerByte(bytes)) # 0 THEN None
    ELSE [op |-> "SkipIfEqReg", lhs |-> XReg(bytes), rhs |-> YReg(bytes)]

handle_six(bytes) ==
    [op |-> "LoadValue", dest |-> XReg(bytes), value |-> GetLowerByte(bytes)]

handle_seven(bytes) ==
    [op |-> "AddValue", dest |-> XReg(bytes), value |-> GetLowerByte(bytes)]

\* handle_eight with the arms of Subtract and SubtractNegate exchanged
handle_eight_SwapsSubtracts(bytes) ==
    LET x == XReg(bytes)
        y == YReg(bytes)
        n == NibbleFromLower(GetLowerByte(bytes))
    IN  CASE n = 0  -> [op |-> "LoadRegister", dest |-> x, source |-> y]
          [] n = 1  -> [op |-> "Or", dest |-> x, source |-> y]
          [] n = 2  -> [op |-> "And", dest |-> x, source |-> y]
          [] n = 3  -> [op |-> "Xor", dest |-> x, source |-> y]
          [] n = 4  -> [op |-> "AddRegister", dest |-> x, source |-> y]
          [] n = 5  -> [op |-> "SubtractNegate", dest |-> x, source |-> y]
          [] n = 6  -> [op |-> "ShiftRight", dest |-> x, source |-> y]
          [] n = 7  -> [op |-> "Subtract", dest |-> x, source |-> y]
          [] n = 14 -> [op |-> "ShiftLeft", dest |-> x, source |-> y]
          [] n = Unreachable -> DecodePanicked
          [] OTHER -> None

handle_eight(bytes) ==
    LET x == XReg(bytes)
        y == YReg(bytes)
        n == NibbleFromLower(GetLowerByte(bytes))
    IN  CASE n = 0  -> [op |-> "LoadRegister", dest |-> x, source |-> y]
          [] n = 1  -> [op |-> "Or", dest |-> x, source |-> y]
          [] n = 2  -> [op |-> "And", dest |-> x, source |-> y]
          [] n = 3  -> [op |-> "Xor", dest |-> x, source |-> y]
          [] n = 4  -> [op |-> "AddRegister", dest |-> x, source |-> y]
          [] n = 5  -> [op |-> "Subtract", dest |-> x, source |-> y]
          [] n = 6  -> [op |-> "ShiftRight", dest |-> x, source |-> y]
          [] n = 7  -> [op |-> "SubtractNegate", dest |-> x, source |-> y]
          [] n = 14 -> [op |-> "ShiftLeft", dest |-> x, source |-> y]
          [] n = Unreachable -> DecodePanicked
          [] OTHER -> None

\* handle_nine without the test of the trailing nibble
handle_nine_AnyTrailing(bytes) ==
    [op |-> "SkipIfNeqReg", lhs |-> XReg(bytes), rhs |-> YReg(bytes)]

handle_nine(bytes) ==
    IF NibbleFromLower(GetLowerByte(bytes)) # 0 THEN None
    ELSE [op |-> "SkipIfNeqReg", lhs |-> XReg(bytes), rhs |-> YReg(bytes)]

handle_ten(bytes) == [op |-> "LoadI", addr |-> AddressFrom(BitAnd(bytes, \H0FFF))]

handle_eleven(bytes) == [op |-> "JumpPlusV0", addr |-> AddressFrom(BitAnd(bytes, \H0FFF))]

handle_twelve(bytes) ==
    [op |-> "Random", dest |-> XReg(bytes), mask |-> GetLowerByte(bytes)]

\* handle_thirteen with the registers of x and y exchanged
handle_thirteen_SwapsXY(bytes) ==
    [op |-> "Draw", x |-> YReg(bytes), y |-> XReg(bytes),
     num_bytes |-> NibbleFromLower(GetLowerByte(bytes))]

handle_thirteen(bytes) ==
    [op |-> "Draw", x |-> XReg(bytes), y |-> YReg(bytes),
     num_bytes |-> NibbleFromLower(GetLowerByte(bytes))]

handle_fourteen(bytes) ==
    LET key_val == XReg(bytes)
        low == GetLowerByte(bytes)
    IN  CASE low = \H9E -> [op |-> "SkipIfKeyDown", key_val |-> key_val]
          [] low = \HA1 -> [op |-> "SkipIfKeyUp", key_val |-> key_val]
          [] OTHER -> None

\* handle_fifteen looking at the trailing nibble only
handle_fifteen_TrailingNibble(bytes) ==
    LET x == XReg(bytes)
        low == NibbleFromLower(GetLowerByte(bytes))
    IN  CASE low = \H7 -> [op |-> "LoadFromDelayTimer", dest |-> x]
          [] low = \HA -> [op |-> "LoadFromKey", dest |-> x]
          [] low = \H8 -> [op |-> "SetSoundTimer", source |-> x]
          [] low = \HE -> [op |-> "AddI", source |-> x]
          [] low = \H9 -> [op |-> "LoadSpriteLocation", digit |-> x]
          [] low = \H3 -> [op |-> "LoadBcd", source |-> x]
          [] OTHER -> None

handle_fifteen(bytes) ==
    LET x == XReg(bytes)
        low == GetLowerByte(bytes)
    IN  CASE low = \H07 -> [op |-> "LoadFromDelayTimer", dest |-> x]
          [] low = \H0A -> [op |-> "LoadFromKey", dest |-> x]
          [] low = \H15 -> [op |-> "SetDelayTimer", source |-> x]
          [] low = \H18 -> [op |-> "SetSoundTimer", source |-> x]
          [] low = \H1E -> [op |-> "AddI", source |-> x]
          [] low = \H29 -> [op |-> "LoadSpriteLocation", digit |-> x]
          [] low = \H33 -> [op |-> "LoadBcd", source |-> x]
          [] low = \H55 -> [op |-> "StoreRegisterRangeAtI", last |-> x]
          [] low = \H65 -> [op |-> "LoadRegisterRangeFromI", last |-> x]
          [] OTHER -> None

decode(bytes) ==
    LET top == NibbleFromUpper(GetUpperByte(bytes))
    IN  CASE top = 0  -> handle_zero(bytes)
          [] top = 1  -> handle_one(bytes)
          [] top = 2  -> handle_two(bytes)
          [] top = 3  -> handle_three(bytes)
          [] top = 4  -> handle_four(bytes)
          [] top = 5  -> handle_five(bytes)
          [] top = 6  -> handle_six(bytes)
          [] top = 7  -> handle_seven(bytes)
          [] top = 8  -> handle_eight(bytes)
          [] top = 9  -> handle_nine(bytes)
          [] top = 10 -> handle_ten(bytes)
          [] top = 11 -> handle_eleven(bytes)
          [] top = 12 -> handle_twelve(bytes)
          [] top = 13 -> handle_thirteen(bytes)
          [] top = 14 -> handle_fourteen(bytes)
          [] top = 15 -> handle_fifteen(bytes)
          [] OTHER -> DecodePanicked

(***************************************************************************)
(* display.rs: Pixel, Display                                              *)
(***************************************************************************)
\* Grid::<Pixel>::init(height, width, Pixel::Off): a row-major grid
GridInit(rows, cols) ==
    [rows |-> rows, cols |-> cols, data |-> [k \in 0..(rows * cols - 1) |-> "Off"]]

\* Display::new: an all-Off grid, dirty on construction
DisplayNew(width, height) == [display_buffer |-> GridInit(height, width), dirty |-> TRUE]

\* Grid::get_mut(row, col) is Some exactly for a cell inside the grid
GridHas(grid, row, col) == row \in 0..(grid.rows - 1) /\ col \in 0..(grid.cols - 1)

GridIndex(grid, row, col) == row * grid.cols + col

\* Pixel::flip leaving a pixel that is On as it is
PixelFlip_OnStays(pixel) ==
    IF pixel = "Off" THEN [pixel |-> "On", was_on |-> FALSE]
    ELSE [pixel |-> "On", was_on |-> TRUE]

\* Pixel::flip: Off becomes On (returns false), On becomes Off (returns true)
PixelFlip(pixel) ==
    IF pixel = "Off" THEN [pixel |-> "On", was_on |-> FALSE]
    ELSE [pixel |-> "Off", was_on |-> TRUE]

\* Display::clear
DisplayClear(display) ==
    [display_buffer |-> [display.display_buffer EXCEPT
                            !.data = [k \in DOMAIN @ |-> "Off"]],
     dirty |-> TRUE]

\* the loop of draw_byte ending at the first pixel it turns off
RECURSIVE DrawByteFrom_StopsAtCollision(_, _, _, _, _, _)
DrawByteFrom_StopsAtCollision(grid, draw_column, row, value, shift, turned_any_off) ==
    IF shift >= 8 \/ ~GridHas(grid, row, draw_column) \/ turned_any_off
    THEN [grid |-> grid, disabled |-> turned_any_off]
    ELSE IF ShiftRightBy(value, 7 - shift) % 2 = 1
         THEN LET k == GridIndex(grid, row, draw_column)
                  f == PixelFlip(grid.data[k])
              IN  DrawByteFrom_StopsAtCollision([grid EXCEPT !.data[k] = f.pixel],
                                                draw_column + 1, row, value, shift + 1,
                                                turned_any_off \/ f.was_on)
         ELSE DrawByteFrom_StopsAtCollision(grid, draw_column + 1, row, value, shift + 1,
                                            turned_any_off)

\* Display::draw_byte, the loop "for shift in 0..8" from `shift` on
RECURSIVE DrawByteFrom(_, _, _, _, _, _)
DrawByteFrom(grid, draw_column, row, value, shift, turned_any_off) ==
    IF shift >= 8 \/ ~GridHas(grid, row, draw_column)
    THEN [grid |-> grid, disabled |-> turned_any_off]
    ELSE IF ShiftRightBy(value, 7 - shift) % 2 = 1
         THEN LET k == GridIndex(grid, row, draw_column)
                  f == PixelFlip(grid.data[k])
              IN  DrawByteFrom([grid EXCEPT !.data[k] = f.pixel], draw_column + 1, row,
                               value, shift + 1, turned_any_off \/ f.was_on)
         ELSE DrawByteFrom(grid, draw_column + 1, row, value, shift + 1, turned_any_off)

\* Display::draw_byte: TRUE in `disabled` stands for PixelsDisabled::SomePixels
DrawByte(grid, col, row, value) == DrawByteFrom(grid, col, row, value, 0, FALSE)

\* the loop of draw_sprite keeping the result of the last row drawn only
RECURSIVE DrawSpriteFrom_LastRowOnly(_, _, _, _, _, _)
DrawSpriteFrom_LastRowOnly(grid, leftmost_column, row, data, k, pixels_disabled) ==
    IF k > Len(data) \/ row >= grid.rows
    THEN [grid |-> grid, disabled |-> pixels_disabled]
    ELSE LET b == DrawByte(grid, leftmost_column, row, data[k])
         IN  DrawSpriteFrom_LastRowOnly(b.grid, leftmost_column, row + 1, data, k + 1,
                                        b.disabled)

\* Display::draw_sprite, the loop "for datum in data" from element k on
RECURSIVE DrawSpriteFrom(_, _, _, _, _, _)
DrawSpriteFrom(grid, leftmost_column, row, data, k, pixels_disabled) ==
    IF k > Len(data) \/ row >= grid.rows
    THEN [grid |-> grid, disabled |-> pixels_disabled]
    ELSE LET b == DrawByte(grid, leftmost_column, row, data[k])
         IN  DrawSpriteFrom(b.grid, leftmost_column, row + 1, data, k + 1,
                            pixels_disabled \/ b.disabled)

\* Display::draw_sprite starting at row y, not at y % rows
DrawSprite_StartsAtY(display, x, y, data) ==
    LET grid == display.display_buffer
        out == DrawSpriteFrom(grid, x % grid.cols, y, data, 1, FALSE)
    IN  [display |-> [display_buffer |-> out.grid, dirty |-> TRUE],
         disabled |-> out.disabled]

\* Display::draw_sprite: the display after the call and the PixelsDisabled it returns
DrawSprite(display, x, y, data) ==
    LET grid == display.display_buffer
        out == DrawSpriteFrom(grid, x % grid.cols, y % grid.rows, data, 1, FALSE)
    IN  [display |-> [display_buffer |-> out.grid, dirty |-> TRUE],
         disabled |-> out.disabled]

\* Display::get_display_buffer returning the grid without clearing the flag
GetDisplayBuffer_KeepsDirty(display) ==
    IF display.dirty
    THEN [display |-> display, returned |-> << display.display_buffer >>]
    ELSE [display |-> display, returned |-> << >>]

\* Display::get_display_buffer: the display after the call and the Option it
\* returns, as a sequence of no or one grid
GetDisplayBuffer(display) ==
    IF display.dirty
    THEN [display |-> [display EXCEPT !.dirty = FALSE],
          returned |-> << display.display_buffer >>]
    ELSE [display |-> display, returned |-> << >>]

(***************************************************************************)
(* registers.rs: GeneralRegisters                                                 *)
(***************************************************************************)
\* Registers::get_general
GetGeneral(p, register) == p.general[register]

\* Registers::set_general
SetGeneral(p, register, value) == [p EXCEPT !.general[register] = value]

\* Registers::set_vf_flag: Flag::Low writes 0 and Flag::High writes 1 into VF
SetVfFlag(p, high) == SetGeneral(p, 15, IF high THEN 1 ELSE 0)

\* Registers::decrement_delay subtracting from a timer that is 0 as well: the
\* u8 wraps to 255
decrement_delay_Always(p) == [p EXCEPT !.delay = (@ + 255) % 256]

\* Registers::decrement_delay: one less unless the timer is 0
decrement_delay(p) == IF p.delay # 0 THEN [p EXCEPT !.delay = @ - 1] ELSE p

\* Registers::decrement_sound: one less unless the timer is 0
decrement_sound(p) == IF p.sound # 0 THEN [p EXCEPT !.sound = @ - 1] ELSE p

(***************************************************************************)
(* processor.rs: ProcessorError, to_bcd, Processor                         *)
(***************************************************************************)
Ok == [type |-> "Ok"]

StackOverflow(address) == [type |-> "StackOverflow", address |-> address]

StackUnderflow(address) == [type |-> "StackUnderflow", address |-> address]

MemoryOverrun(address) == [type |-> "MemoryOverrun", address |-> address]

DecodeFailure(bytes) == [type |-> "DecodeFailure", instruction |-> bytes]

\* step() did not return: an index out of bounds or unimplemented!() aborted it
Panic == [type |-> "Panic"]

ErrorTypes == {"StackOverflow", "StackUnderflow", "MemoryOverrun", "DecodeFailure"}

\* BcdAdjust adding 3 only to a nibble that exceeds 5
RECURSIVE BcdAdjust_AboveFive(_, _)
BcdAdjust_AboveFive(scratch, nibble_idx) ==
    IF nibble_idx >= 5 THEN scratch
    ELSE IF ShiftRightBy(scratch, 4 * nibble_idx) % 16 > 5
         THEN BcdAdjust_AboveFive(scratch + 3 * Pow2(4 * nibble_idx), nibble_idx + 1)
         ELSE BcdAdjust_AboveFive(scratch, nibble_idx + 1)

\* to_bcd, inner loop "for nibble_idx in 2..5" from nibble_idx on
RECURSIVE BcdAdjust(_, _)
BcdAdjust(scratch, nibble_idx) ==
    IF nibble_idx >= 5 THEN scratch
    ELSE IF ShiftRightBy(scratch, 4 * nibble_idx) % 16 >= 5
         THEN BcdAdjust(scratch + 3 * Pow2(4 * nibble_idx), nibble_idx + 1)
         ELSE BcdAdjust(scratch, nibble_idx + 1)

\* to_bcd, outer loop "for _ in 0..8" with `round` rounds left; the u32 scratch
\* holds a byte shifted left 8 times plus the adjustments, below 2^20: no bit is lost
RECURSIVE BcdRounds(_, _)
BcdRounds(scratch, round) ==
    IF round = 0 THEN scratch
    ELSE BcdRounds(BcdAdjust(scratch, 2) * 2, round - 1)

to_bcd(byte) ==
    LET scratch == BcdRounds(byte, 8)
    IN  << ShiftRightBy(scratch, 16) % 16,
           ShiftRightBy(scratch, 12) % 16,
           ShiftRightBy(scratch, 8) % 16 >>

\* memory[..HEX_SPRITE_DATA.len()] and memory[PROGRAM_START..PROGRAM_START + len]
\* InitialMemory without the copy of HEX_SPRITE_DATA
InitialMemory_NoFont(bytes) ==
    [a \in 0..(MEMORY_SIZE_BYTES - 1) |->
        IF a >= PROGRAM_START /\ a < PROGRAM_START + Len(bytes)
        THEN bytes[a - PROGRAM_START + 1]
        ELSE 0]

InitialMemory(bytes) ==
    LET font_end == Len(HEX_SPRITE_DATA)
        program_end == PROGRAM_START + Len(bytes)
    IN  [a \in 0..(MEMORY_SIZE_BYTES - 1) |->
            IF a < font_end THEN HEX_SPRITE_DATA[a + 1]
            ELSE IF a >= PROGRAM_START /\ a < program_end
                 THEN bytes[a - PROGRAM_START + 1]
                 ELSE 0]

\* Processor::new_with_config with DEFAULT_CONFIG, for a program that fits
ProcessorNew(bytes) ==
    [memory |-> InitialMemory(bytes),
     general |-> [r \in 0..(NUM_GENERAL_REGISTERS - 1) |-> 0],
     i |-> AddressFrom(0),
     delay |-> 0,
     sound |-> 0,
     stack |-> [s \in 0..(STACK_SIZE - 1) |-> AddressFrom(0)],
     program_counter |-> AddressFrom(PROGRAM_START),
     stack_pointer |-> 0,
     display |-> DisplayNew(DISPLAY_WIDTH, DISPLAY_HEIGHT)]

ProgramTooLong(size) == [type |-> "ProgramTooLong", size |-> size]

\* new_with_config with the length test program_bytes.len() >= MAX_PROGRAM_BYTES
new_with_config_RefusesFull(bytes) ==
    IF Len(bytes) >= MAX_PROGRAM_BYTES
    THEN [result |-> ProgramTooLong(Len(bytes))]
    ELSE [result |-> Ok, proc |-> ProcessorNew(bytes)]

\* Processor::new: Err(ProgramTooLong) or Ok(processor)
new_with_config(bytes) ==
    IF Len(bytes) > MAX_PROGRAM_BYTES
    THEN [result |-> ProgramTooLong(Len(bytes))]
    ELSE [result |-> Ok, proc |-> ProcessorNew(bytes)]

\* an index of an array or slice of `len` elements that does not panic
InBounds(index, len) == index \in 0..(len - 1)

\* what fetch yields when memory[instruction_index + idx] is out of bounds
OutOfBounds == 0 - 2

\* Processor::fetch: the big-endian pair at [pc, pc + 2)
fetch(p) ==
    LET instruction_index == p.program_counter
    IN  IF InBounds(instruction_index, MEMORY_SIZE_BYTES)
           /\ InBounds(instruction_index + 1, MEMORY_SIZE_BYTES)
        THEN p.memory[instruction_index] * 256 + p.memory[instruction_index + 1]
        ELSE OutOfBounds

\* Processor::pc_skip advancing one instruction only
pc_skip_AdvancesOnce(p) == [p EXCEPT !.program_counter = AddressIncrement(@, 2)]

\* Processor::pc_skip
pc_skip(p) == [p EXCEPT !.program_counter = AddressIncrement(@, 4)]

\* Processor::pc_advance
pc_advance(p) == [p EXCEPT !.program_counter = AddressIncrement(@, 2)]

Done(p) == [proc |-> p, result |-> Ok]

Failed(p, error) == [proc |-> p, result |-> error]

(***************************************************************************)
(* Processor::execute, one operator per match arm                          *)
(***************************************************************************)
ExecSys(p) == Done(pc_advance(p))

ExecClear(p) == Done(pc_advance([p EXCEPT !.display = DisplayClear(@)]))

\* ExecReturn resuming at the call site itself: pc_advance left out
ExecReturn_ResumesAtCall(p) ==
    IF p.stack_pointer = 0 THEN Failed(p, StackUnderflow(p.program_counter))
    ELSE IF ~InBounds(p.stack_pointer, STACK_SIZE) THEN Failed(p, Panic)
    ELSE Done([p EXCEPT !.program_counter = p.stack[p.stack_pointer],
                        !.stack_pointer = @ - 1])

\* ExecReturn with the empty-stack test widened to stack_pointer <= 1
ExecReturn_UnderflowAtOne(p) ==
    IF p.stack_pointer <= 1 THEN Failed(p, StackUnderflow(p.program_counter))
    ELSE IF ~InBounds(p.stack_pointer, STACK_SIZE) THEN Failed(p, Panic)
    ELSE Done(pc_advance([p EXCEPT !.program_counter = p.stack[p.stack_pointer],
                                   !.stack_pointer = @ - 1]))

ExecReturn(p) ==
    IF p.stack_pointer = 0 THEN Failed(p, StackUnderflow(p.program_counter))
    ELSE IF ~InBounds(p.stack_pointer, STACK_SIZE) THEN Failed(p, Panic)
    ELSE Done(pc_advance([p EXCEPT !.program_counter = p.stack[p.stack_pointer],
                                   !.stack_pointer = @ - 1]))

ExecJump(p, addr) == Done([p EXCEPT !.program_counter = addr])

\* ExecCall with the full-stack test stack_pointer > STACK_SIZE
ExecCall_OverflowLate(p, addr) ==
    LET q == [p EXCEPT !.stack_pointer = @ + 1]
    IN  IF q.stack_pointer > STACK_SIZE
        THEN Failed(q, StackOverflow(q.program_counter))
        ELSE IF ~InBounds(q.stack_pointer, STACK_SIZE) THEN Failed(q, Panic)
        ELSE Done([q EXCEPT !.stack[q.stack_pointer] = q.program_counter,
                            !.program_counter = addr])

\* ExecCall with the error tagged with the call's target instead of the pc
ExecCall_TagsTarget(p, addr) ==
    LET q == [p EXCEPT !.stack_pointer = @ + 1]
    IN  IF q.stack_pointer >= STACK_SIZE
        THEN Failed(q, StackOverflow(addr + 2))
        ELSE Done([q EXCEPT !.stack[q.stack_pointer] = q.program_counter,
                            !.program_counter = addr])

ExecCall(p, addr) ==
    LET q == [p EXCEPT !.stack_pointer = @ + 1]
    IN  IF q.stack_pointer >= STACK_SIZE
        THEN Failed(q, StackOverflow(q.program_counter))
        ELSE Done([q EXCEPT !.stack[q.stack_pointer] = q.program_counter,
                            !.program_counter = addr])

ExecSkipIfEqByte(p, reg, value) ==
    IF GetGeneral(p, reg) = value THEN Done(pc_skip(p)) ELSE Done(pc_advance(p))

ExecSkipIfNeqByte(p, reg, value) ==
    IF GetGeneral(p, reg) # value THEN Done(pc_skip(p)) ELSE Done(pc_advance(p))

ExecSkipIfEqReg(p, lhs, rhs) ==
    IF GetGeneral(p, lhs) = GetGeneral(p, rhs) THEN Done(pc_skip(p))
    ELSE Done(pc_advance(p))

ExecLoadValue(p, dest, value) == Done(pc_advance(SetGeneral(p, dest, value)))

\* ExecAddValue storing the carry of overflowing_add in VF
ExecAddValue_SetsCarry(p, dest, value) ==
    LET current == GetGeneral(p, dest)
    IN  Done(pc_advance(SetVfFlag(SetGeneral(p, dest, U8(current + value)),
                                  current + value > 255)))

ExecAddValue(p, dest, value) ==
    Done(pc_advance(SetGeneral(p, dest, U8(GetGeneral(p, dest) + value))))

ExecLoadRegister(p, dest, source) ==
    Done(pc_advance(SetGeneral(p, dest, GetGeneral(p, source))))

ExecOr(p, dest, source) ==
    Done(pc_advance(SetGeneral(p, dest,
                               BitOr(GetGeneral(p, dest), GetGeneral(p, source)))))

ExecAnd(p, dest, source) ==
    Done(pc_advance(SetGeneral(p, dest,
                               BitAnd(GetGeneral(p, dest), GetGeneral(p, source)))))

ExecXor(p, dest, source) ==
    Done(pc_advance(SetGeneral(p, dest,
                               BitXor(GetGeneral(p, dest), GetGeneral(p, source)))))

\* ExecAddRegister calling set_vf_flag before set_general
ExecAddRegister_FlagFirst(p, dest, source) ==
    LET lhs == GetGeneral(p, dest)
        rhs == GetGeneral(p, source)
        carry == lhs + rhs > 255
    IN  Done(pc_advance(SetGeneral(SetVfFlag(p, carry), dest, U8(lhs + rhs))))

ExecAddRegister(p, dest, source) ==
    LET lhs == GetGeneral(p, dest)
        rhs == GetGeneral(p, source)
        carry == lhs + rhs > 255
    IN  Done(pc_advance(SetVfFlag(SetGeneral(p, dest, U8(lhs + rhs)), carry)))

\* ExecSubtract with the flag lhs > rhs: equal operands count as a borrow
ExecSubtract_StrictFlag(p, dest, source) ==
    LET lhs == GetGeneral(p, dest)
        rhs == GetGeneral(p, source)
    IN  Done(pc_advance(SetVfFlag(SetGeneral(p, dest, U8(lhs - rhs + 256)), lhs > rhs)))

ExecSubtract(p, dest, source) ==
    LET lhs == GetGeneral(p, dest)
        rhs == GetGeneral(p, source)
        borrow == lhs < rhs
    IN  Done(pc_advance(SetVfFlag(SetGeneral(p, dest, U8(lhs - rhs + 256)), ~borrow)))

\* ExecShiftRight taking the flag from the value after the shift
ExecShiftRight_FlagAfterShift(p, dest) ==
    LET value == ShiftRightBy(GetGeneral(p, dest), 1)
        lsb == BitAnd(value, 1)
    IN  Done(pc_advance(SetVfFlag(SetGeneral(p, dest, value), lsb = 1)))

ExecShiftRight(p, dest) ==
    LET value == GetGeneral(p, dest)
        lsb == BitAnd(value, 1)
    IN  Done(pc_advance(SetVfFlag(SetGeneral(p, dest, ShiftRightBy(value, 1)), lsb = 1)))

ExecSubtractNegate(p, dest, source) ==
    LET lhs == GetGeneral(p, dest)
        rhs == GetGeneral(p, source)
        borrow == rhs < lhs
    IN  Done(pc_advance(SetVfFlag(SetGeneral(p, dest, U8(rhs - lhs + 256)), ~borrow)))

ExecShiftLeft(p, dest) ==
    LET value == GetGeneral(p, dest)
        msb == ShiftRightBy(BitAnd(value, \H80), 7)
    IN  Done(pc_advance(SetVfFlag(SetGeneral(p, dest, U8(value * 2)), msb = 1)))

ExecSkipIfNeqReg(p, lhs, rhs) ==
    IF GetGeneral(p, lhs) # GetGeneral(p, rhs) THEN Done(pc_skip(p))
    ELSE Done(pc_advance(p))

ExecLoadI(p, addr) == Done(pc_advance([p EXCEPT !.i = addr]))

\* JumpPlusV0 storing the raw sum, without Address::from
ExecJumpPlusV0_Unmasked(p, addr) ==
    Done([p EXCEPT !.program_counter = GetGeneral(p, 0) + addr])

ExecJumpPlusV0(p, addr) ==
    Done([p EXCEPT !.program_counter = AddressFrom(GetGeneral(p, 0) + addr)])

\* random_value is the byte rand::random() returned
ExecRandom(p, dest, mask, random_value) ==
    Done(pc_advance(SetGeneral(p, dest, BitAnd(random_value, mask))))

\* &self.memory[draw_start..draw_end] as a sequence
MemorySlice(p, start, end) == [k \in 1..(end - start) |-> p.memory[start + k - 1]]

\* ExecDraw with the ceiling test draw_end >= MEMORY_SIZE_BYTES
ExecDraw_CeilingInclusive(p, x, y, num_bytes) ==
    LET draw_start == p.i
        draw_end == draw_start + num_bytes
    IN  IF draw_end >= MEMORY_SIZE_BYTES THEN Failed(p, MemoryOverrun(p.program_counter))
        ELSE LET bytes_to_draw == MemorySlice(p, draw_start, draw_end)
                 drawn == DrawSprite(p.display, GetGeneral(p, x), GetGeneral(p, y),
                                     bytes_to_draw)
             IN  Done(pc_advance([p EXCEPT !.display = drawn.display]))

ExecDraw(p, x, y, num_bytes) ==
    LET draw_start == p.i
        draw_end == draw_start + num_bytes
    IN  IF draw_end > MEMORY_SIZE_BYTES THEN Failed(p, MemoryOverrun(p.program_counter))
        ELSE LET bytes_to_draw == MemorySlice(p, draw_start, draw_end)
                 drawn == DrawSprite(p.display, GetGeneral(p, x), GetGeneral(p, y),
                                     bytes_to_draw)
             IN  Done(pc_advance([p EXCEPT !.display = drawn.display]))

\* unimplemented!()
ExecSkipIfKeyDown(p) == Failed(p, Panic)

\* unimplemented!()
ExecSkipIfKeyUp(p) == Failed(p, Panic)

ExecLoadFromDelayTimer(p, dest) == Done(pc_advance(SetGeneral(p, dest, p.delay)))

\* unimplemented!()
ExecLoadFromKey(p) == Failed(p, Panic)

ExecSetDelayTimer(p, source) == Done(pc_advance([p EXCEPT !.delay = GetGeneral(p, source)]))

ExecSetSoundTimer(p, source) == Done(pc_advance([p EXCEPT !.sound = GetGeneral(p, source)]))

\* ExecAddI storing the raw sum, without Address::from
ExecAddI_Unmasked(p, source) ==
    Done(pc_advance([p EXCEPT !.i = p.i + GetGeneral(p, source)]))

ExecAddI(p, source) ==
    LET base == p.i
        offset == GetGeneral(p, source)
    IN  Done(pc_advance([p EXCEPT !.i = AddressFrom(base + offset)]))

\* LoadSpriteLocation multiplying the whole register, not its low nibble
ExecLoadSpriteLocation_WholeByte(p, digit) ==
    LET hex_digit == GetGeneral(p, digit)
        hex_sprite_address == hex_digit * HEX_SPRITE_STRIDE
    IN  Done(pc_advance([p EXCEPT !.i = AddressFrom(hex_sprite_address)]))

ExecLoadSpriteLocation(p, digit) ==
    LET hex_digit == GetGeneral(p, digit)
        hex_sprite_address == BitAnd(hex_digit, \H0F) * HEX_SPRITE_STRIDE
    IN  Done(pc_advance([p EXCEPT !.i = AddressFrom(hex_sprite_address)]))

ExecLoadBcd(p, source) ==
    LET target_address == p.i
    IN  IF target_address + 3 > MEMORY_SIZE_BYTES
        THEN Failed(p, MemoryOverrun(p.program_counter))
        ELSE LET bcd_digits == to_bcd(GetGeneral(p, source))
             IN  Done(pc_advance([p EXCEPT !.memory =
                     [a \in DOMAIN @ |->
                         IF a >= target_address /\ a < target_address + Len(bcd_digits)
                         THEN bcd_digits[a - target_address + 1] ELSE @[a]]]))

\* the loop of StoreRegisterRangeAtI from register `reg` on, writing at dest_address
RECURSIVE StoreRegisterRangeFrom(_, _, _, _)
StoreRegisterRangeFrom(p, reg, last, dest_address) ==
    IF reg > last THEN Done(pc_advance(p))
    ELSE IF dest_address > MEMORY_SIZE_BYTES
         THEN Failed(p, MemoryOverrun(p.program_counter))
    ELSE IF ~InBounds(dest_address, MEMORY_SIZE_BYTES) THEN Failed(p, Panic)
    ELSE StoreRegisterRangeFrom([p EXCEPT !.memory[dest_address] = GetGeneral(p, reg)],
                                reg + 1, last, dest_address + 1)

\* StoreRegisterRangeAtI stopping before V{last}: take(last) for take(last + 1)
ExecStoreRegisterRangeAtI_Exclusive(p, last) ==
    StoreRegisterRangeFrom(p, 0, last - 1, p.i)

ExecStoreRegisterRangeAtI(p, last) == StoreRegisterRangeFrom(p, 0, last, p.i)

\* the loop of LoadRegisterRangeFromI from register `reg` on, reading at src_address
RECURSIVE LoadRegisterRangeFrom(_, _, _, _)
LoadRegisterRangeFrom(p, reg, last, src_address) ==
    IF reg > last THEN Done(pc_advance(p))
    ELSE IF src_address > MEMORY_SIZE_BYTES
         THEN Failed(p, MemoryOverrun(p.program_counter))
    ELSE IF ~InBounds(src_address, MEMORY_SIZE_BYTES) THEN Failed(p, Panic)
    ELSE LoadRegisterRangeFrom(SetGeneral(p, reg, p.memory[src_address]),
                               reg + 1, last, src_address + 1)

ExecLoadRegisterRangeFromI(p, last) == LoadRegisterRangeFrom(p, 0, last, p.i)

\* Processor::execute: the match on the instruction
execute(p, ins, random_value) ==
    CASE ins.op = "Sys" -> ExecSys(p)
      [] ins.op = "Clear" -> ExecClear(p)
      [] ins.op = "Return" -> ExecReturn(p)
      [] ins.op = "Jump" -> ExecJump(p, ins.addr)
      [] ins.op = "Call" -> ExecCall(p, ins.addr)
      [] ins.op = "SkipIfEqByte" -> ExecSkipIfEqByte(p, ins.reg, ins.value)
      [] ins.op = "SkipIfNeqByte" -> ExecSkipIfNeqByte(p, ins.reg, ins.value)
      [] ins.op = "SkipIfEqReg" -> ExecSkipIfEqReg(p, ins.lhs, ins.rhs)
      [] ins.op = "LoadValue" -> ExecLoadValue(p, ins.dest, ins.value)
      [] ins.op = "AddValue" -> ExecAddValue(p, ins.dest, ins.value)
      [] ins.op = "LoadRegister" -> ExecLoadRegister(p, ins.dest, ins.source)
      [] ins.op = "Or" -> ExecOr(p, ins.dest, ins.source)
      [] ins.op = "And" -> ExecAnd(p, ins.dest, ins.source)
      [] ins.op = "Xor" -> ExecXor(p, ins.dest, ins.source)
      [] ins.op = "AddRegister" -> ExecAddRegister(p, ins.dest, ins.source)
      [] ins.op = "Subtract" -> ExecSubtract(p, ins.dest, ins.source)
      [] ins.op = "ShiftRight" -> ExecShiftRight(p, ins.dest)
      [] ins.op = "SubtractNegate" -> ExecSubtractNegate(p, ins.dest, ins.source)
      [] ins.op = "ShiftLeft" -> ExecShiftLeft(p, ins.dest)
      [] ins.op = "SkipIfNeqReg" -> ExecSkipIfNeqReg(p, ins.lhs, ins.rhs)
      [] ins.op = "LoadI" -> ExecLoadI(p, ins.addr)
      [] ins.op = "JumpPlusV0" -> ExecJumpPlusV0(p, ins.addr)
      [] ins.op = "Random" -> ExecRandom(p, ins.dest, ins.mask, random_value)
      [] ins.op = "Draw" -> ExecDraw(p, ins.x, ins.y, ins.num_bytes)
      [] ins.op = "SkipIfKeyDown" -> ExecSkipIfKeyDown(p)
      [] ins.op = "SkipIfKeyUp" -> ExecSkipIfKeyUp(p)
      [] ins.op = "LoadFromDelayTimer" -> ExecLoadFromDelayTimer(p, ins.dest)
      [] ins.op = "LoadFromKey" -> ExecLoadFromKey(p)
      [] ins.op = "SetDelayTimer" -> ExecSetDelayTimer(p, ins.source)
      [] ins.op = "SetSoundTimer" -> ExecSetSoundTimer(p, ins.source)
      [] ins.op = "AddI" -> ExecAddI(p, ins.source)
      [] ins.op = "LoadSpriteLocation" -> ExecLoadSpriteLocation(p, ins.digit)
      [] ins.op = "LoadBcd" -> ExecLoadBcd(p, ins.source)
      [] ins.op = "StoreRegisterRangeAtI" -> ExecStoreRegisterRangeAtI(p, ins.last)
      [] ins.op = "LoadRegisterRangeFromI" -> ExecLoadRegisterRangeFromI(p, ins.last)

\* Processor::step: fetch, decode (None becomes DecodeFailure), execute
step(p, random_value) ==
    LET bytes == fetch(p)
    IN  IF bytes = OutOfBounds
        THEN [proc |-> p, result |-> Panic, bytes |-> bytes, ins |-> Undecoded]
        ELSE LET ins == decode(bytes)
             IN  IF ins.op = "None"
                 THEN [proc |-> p, result |-> DecodeFailure(bytes), bytes |-> bytes,
                       ins |-> ins]
                 ELSE IF ins.op = "Panicked"
                 THEN [proc |-> p, result |-> Panic, bytes |-> bytes, ins |-> ins]
                 ELSE LET out == execute(p, ins, random_value)
                      IN  [proc |-> out.proc, result |-> out.result, bytes |-> bytes,
                           ins |-> ins]

(***************************************************************************)
(* Programs the processor is constructed from                              *)
(***************************************************************************)
\* the bytes of a sequence of 16-bit opcodes, big-endian
Assemble(opcodes) ==
    [k \in 1..(2 * Len(opcodes)) |->
        IF k % 2 = 1 THEN opcodes[(k + 1) \div 2] \div 256
        ELSE opcodes[k \div 2] % 256]

\* one-instruction programs; the memory after them is zero (SYS 0x000)
SingleOps ==
    { \H0000, \H00E0, \H00EE, \H0123,
      \H1200, \H1202, \H1FFC, \H1FFD, \H1FFE, \H1FFF,
      \H2200, \H2202, \H2FFE,
      \H3000, \H3001, \H4000, \H4001, \H5010, \H5011, \H9010, \H9011,
      \H60FF, \H7001, \H8010, \H8014, \H8018, \H801E, \H801F,
      \HA123, \HB300, \HC003, \HD011, \HD000,
      \HE09E, \HE0A1, \HE000, \HF00A, \HF001,
      \HF007, \HF015, \HF018, \HF01E, \HF029, \HF033, \HF055, \HF065, \HFF55, \HFF65 }

\* values of I around the end of memory, and two ordinary ones
EdgeAddresses == { \H000, \H300, \HFEF, \HFF0, \HFF1 } \cup (\HFFA .. \HFFF)

\* the instructions that access memory[I..]
MemoryOps ==
    (\HD010 .. \HD01F)
    \cup
    { \HF033, \HF133,
      \HF055, \HF155, \HF255, \HFE55, \HFF55,
      \HF065, \HF165, \HF265, \HFE65, \HFF65 }

\* LD I, addr followed by one memory instruction
MemoryPrograms == { << \HA000 + addr, op >> : addr \in EdgeAddresses, op \in MemoryOps }

\* a subroutine call followed by one more stack instruction
CallPrograms ==
    { << \H2202, op >> : op \in { \H00EE, \H2200, \H2202, \H2204, \H1200 } }
    \cup { << \H2204, \H2200, \H00EE >>, << \H2204, \H0000, \H00EE, \H00EE >> }

\* registers set up, then stored, loaded, drawn or converted at I
DataPrograms ==
    { << \H6000 + v, \H6100 + w, \HA000 + addr, op, \H1200 >> :
        v \in { \H00, \H9C, \HFF }, w \in { \H01, \H80 },
        addr \in { \H300, \HFFB, \HFFE }, op \in { \HF155, \HF165, \HD012, \HF033 } }

\* three nested calls, made at 0x200, 0x204 and 0x208, and their returns; the
\* same two levels deep
NestedCalls == << \H2204, \H1202, \H2208, \H00EE, \H220C, \H00EE, \H00EE >>

NestedCallPrograms == { NestedCalls, << \H2204, \H1202, \H2208, \H00EE, \H00EE >> }

\* V0 and V1 set, then one skip instruction on them
SkipPrograms ==
    { << \H6000 + a, \H6100 + b, op >> :
        a \in { \H00, \H01, \HFF }, b \in { \H00, \H01, \HFF },
        op \in { \H3000, \H3001, \H30FF, \H4000, \H4001, \H40FF, \H5010, \H9010 } }

\* V0 set, then JP V0, addr
JumpPlusV0Programs ==
    { << \H6000 + v, \H6E5A, \HB000 + addr >> :
        v \in { \H00, \H01, \H04, \HFF }, addr \in { \H000, \H300, \HF01, \HFFF } }

\* V0, V1, V2 and VF set, then the registers up to V0, V2 or VF stored at or
\* loaded from I: the font, free memory, and the last bytes of memory
RegisterRangePrograms ==
    { << \H60A1, \H61B2, \H62C3, \H6FF4, \HA000 + addr, op >> :
        addr \in { \H000, \H300, \HFEF, \HFF0 },
        op \in { \HF055, \HF255, \HFF55, \HF065, \HF265, \HFF65 } }

\* V0 = 0x40 stored at 0xFFC makes SNE V0, 0x00 the last instruction of memory
SkipAtEndProgram == << \H6040, \HAFFC, \HF055, \H1FFC >>

\* LD VF, f; DRW V0, V0, 5; DRW V0, V0, 5: the glyph of 0 (I = 0 after
\* construction) is drawn at (0, 0) twice, the second draw erasing the first
DrawTwicePrograms ==
    { << \H6F00 + f, \HD005, \HD005 >> : f \in { \H00, \H01 } }

\* LD Vx, v; LD F, Vx: the sprite location of a register whose high nibble
\* is clear or set
SpriteLocationPrograms ==
    { << \H6000 + 256 * x + v, \HF029 + 256 * x >> :
        x \in { 0, 5, 15 }, v \in { \H00, \H07, \H0F, \H1A, \HF3, \HFF } }

Programs ==
    { << op >> : op \in SingleOps } \cup MemoryPrograms \cup CallPrograms
    \cup DataPrograms \cup NestedCallPrograms \cup SkipPrograms
    \cup JumpPlusV0Programs \cup RegisterRangePrograms \cup DrawTwicePrograms
    \cup SpriteLocationPrograms
    \cup { SkipAtEndProgram, << >> }

(***************************************************************************)
(* The state machine                                                       *)
(***************************************************************************)
\* bound on the number of step() calls of a run
MaxSteps == 17

\* the processor as one record of the state variables
Proc ==
    [memory |-> memory, general |-> general, i |-> i, delay |-> delay, sound |-> sound,
     stack |-> stack, stack_pointer |-> stack_pointer,
     program_counter |-> program_counter,
     display |-> [display_buffer |-> display_buffer, dirty |-> dirty]]

\* the state variables after the call are the fields of processor record q
ProcBecomes(q) ==
    /\ memory' = q.memory
    /\ general' = q.general
    /\ i' = q.i
    /\ delay' = q.delay
    /\ sound' = q.sound
    /\ stack' = q.stack
    /\ stack_pointer' = q.stack_pointer
    /\ program_counter' = q.program_counter
    /\ display_buffer' = q.display.display_buffer
    /\ dirty' = q.display.dirty

NoResult == [type |-> "None"]

\* Processor::new(program_bytes) returned Ok(processor); no step() made yet
Init ==
    \E program \in Programs :
        \E q \in {ProcessorNew(Assemble(program))} :
            /\ Len(Assemble(program)) <= MAX_PROGRAM_BYTES
            /\ program_bytes = Assemble(program)
            /\ NoApi
            /\ memory = q.memory
            /\ general = q.general
            /\ i = q.i
            /\ delay = q.delay
            /\ sound = q.sound
            /\ stack = q.stack
            /\ stack_pointer = q.stack_pointer
            /\ program_counter = q.program_counter
            /\ display_buffer = q.display.display_buffer
            /\ dirty = q.display.dirty
            /\ result = NoResult
            /\ steps = 0
            /\ call_depth = 0
            /\ instruction_bytes = 0
            /\ instruction = Undecoded

\* the bytes rand::random() may return in this step: it is called by Random alone
RandomValues(p) ==
    IF fetch(p) # OutOfBounds /\ decode(fetch(p)).op = "Random" THEN 0..255 ELSE {0}

\* the calls not yet returned from, after a step() whose outcome is `out`
CallDepthAfter(depth, out) ==
    IF out.result.type # "Ok" THEN depth
    ELSE IF out.ins.op = "Call" THEN depth + 1
    ELSE IF out.ins.op = "Return" THEN depth - 1
    ELSE depth

\* one call of Processor::step by the driver; a panicked processor is gone
Step ==
    /\ result.type # "Panic"
    /\ steps < MaxSteps
    /\ \E random_value \in RandomValues(Proc) :
        \E out \in {step(Proc, random_value)} :
            /\ ProcBecomes(out.proc)
            /\ result' = out.result
            /\ instruction_bytes' = out.bytes
            /\ instruction' = out.ins
            /\ call_depth' = CallDepthAfter(call_depth, out)
    /\ steps' = steps + 1
    /\ UNCHANGED <<program_bytes, apiVars>>

Next == Step

Spec == Init /\ [][Next]_vars

(***************************************************************************)
(* The decoder on its own: every 16-bit value is decoded                   *)
(***************************************************************************)
DecodeInit ==
    /\ instruction_bytes \in 0..65535
    /\ instruction = Undecoded
    /\ memory = NoProcessor
    /\ general = NoProcessor
    /\ i = NoProcessor
    /\ delay = NoProcessor
    /\ sound = NoProcessor
    /\ stack = NoProcessor
    /\ stack_pointer = NoProcessor
    /\ program_counter = NoProcessor
    /\ display_buffer = NoProcessor
    /\ dirty = NoProcessor
    /\ result = NoResult
    /\ steps = 0
    /\ call_depth = 0
    /\ program_bytes = NoProcessor
    /\ NoApi

\* instructions::decode(instruction_bytes), called once more
Decode ==
    /\ instruction' = decode(instruction_bytes)
    /\ UNCHANGED <<procVars, result, steps, call_depth, instruction_bytes, program_bytes,
                   apiVars>>

DecodeNext == Decode

DecodeSpec == DecodeInit /\ [][DecodeNext]_vars

(***************************************************************************)
(* Construction and the first step() calls, over a wide set of programs    *)
(***************************************************************************)
\* bound on the number of step() calls after a construction
MaxFirstSteps == 3

\* the opcodes 0x0000 .. 0x0FFF in runs of MaxFirstSteps consecutive opcodes,
\* one run per program, and on their own the opcodes that follow 0x00EE
ZeroFamilyPrograms ==
    { [k \in 1..MaxFirstSteps |-> (base * MaxFirstSteps + k - 1) % 4096] :
        base \in 0..(4095 \div MaxFirstSteps) }
    \cup { << op >> : op \in \H00EF .. (\H00EE + MaxFirstSteps) }

\* operand bytes around the carry, borrow and shift boundaries
OperandBytes == { \H00, \H01, \H12, \H34, \H7F, \H80, \HCC, \HEE, \HFF }

\* <<x, y>> of an 8xyN instruction: ordinary, VF as source, VF as dest, x = y
RegisterPairs == { <<1, 2>>, <<0, 15>>, <<15, 0>>, <<3, 3>> }

\* the trailing nibbles of AddRegister, Subtract, ShiftRight, SubtractNegate
\* and ShiftLeft
ArithmeticNibbles == { \H4, \H5, \H6, \H7, \HE }

\* LD Vx, a; LD Vy, b; then one 8xyN instruction
ArithmeticPrograms ==
    { << \H6000 + 256 * xy[1] + a, \H6000 + 256 * xy[2] + b,
         \H8000 + 256 * xy[1] + 16 * xy[2] + n >> :
        xy \in RegisterPairs, a \in OperandBytes, b \in OperandBytes,
        n \in ArithmeticNibbles }

\* LD VF, f; LD Vx, a; ADD Vx, value
AddValuePrograms ==
    { << \H6F00 + f, \H6000 + 256 * x + a, \H7000 + 256 * x + value >> :
        f \in { \H00, \H56 }, x \in { 0, 14 }, a \in OperandBytes,
        value \in OperandBytes }

\* program lengths around MAX_PROGRAM_BYTES = 0xDFF and MEMORY_SIZE_BYTES
ProgramLengths == { 0, 1, 2, \H1FF, \HDFE, \HDFF, \HE00, \HE01, \HFFF, \H1000 }

\* programs of these lengths, all of whose bytes differ from zero
LongPrograms == { [k \in 1..len |-> (k % 255) + 1] : len \in ProgramLengths }

\* LD Vx, value; LD I, addr; ADD I, Vx
AddIPrograms ==
    { << \H6000 + 256 * x + value, \HA000 + addr, \HF01E + 256 * x >> :
        x \in { 0, 4 }, value \in OperandBytes,
        addr \in { \H000, \H300, \HF00, \HF01, \HFFF } }

\* LD V8, byte; LD I, addr; LD B, V8: every byte at 0x400, some at the last
\* address that takes three digits
BcdPrograms ==
    { << \H6800 + byte, \HA400, \HF833 >> : byte \in 0..255 }
    \cup { << \H6800 + byte, \HAFFC, \HF833 >> : byte \in OperandBytes }

LoadedPrograms ==
    { Assemble(program) :
        program \in ZeroFamilyPrograms \cup ArithmeticPrograms \cup AddValuePrograms
                    \cup AddIPrograms \cup BcdPrograms }
    \cup LongPrograms

\* the state variables are the fields of processor record q
ProcIs(q) ==
    /\ memory = q.memory
    /\ general = q.general
    /\ i = q.i
    /\ delay = q.delay
    /\ sound = q.sound
    /\ stack = q.stack
    /\ stack_pointer = q.stack_pointer
    /\ program_counter = q.program_counter
    /\ display_buffer = q.display.display_buffer
    /\ dirty = q.display.dirty

\* Processor::new(program_bytes) has returned: Ok(processor), or an error and
\* then there is no processor
LoadInit ==
    \E bytes \in LoadedPrograms :
        \E out \in {new_with_config(bytes)} :
            /\ program_bytes = bytes
            /\ NoApi
            /\ IF out.result = Ok
               THEN ProcIs(out.proc) /\ result = NoResult
               ELSE /\ memory = NoProcessor
                    /\ general = NoProcessor
                    /\ i = NoProcessor
                    /\ delay = NoProcessor
                    /\ sound = NoProcessor
                    /\ stack = NoProcessor
                    /\ stack_pointer = NoProcessor
                    /\ program_counter = NoProcessor
                    /\ display_buffer = NoProcessor
                    /\ dirty = NoProcessor
                    /\ result = out.result
            /\ steps = 0
            /\ call_depth = 0
            /\ instruction_bytes = 0
            /\ instruction = Undecoded

\* one of the first step() calls on the processor that was constructed
FirstStep ==
    /\ result.type # "ProgramTooLong"
    /\ steps < MaxFirstSteps
    /\ Step

LoadNext == FirstStep

LoadSpec == LoadInit /\ [][LoadNext]_vars

(***************************************************************************)
(* keypad.rs: Keys                                                         *)
(***************************************************************************)
NUM_KEYS == 16

KeyStatus == { "Pressed", "Released" }

\* Keys::new: every key Released
KeysNew == [key \in 0..(NUM_KEYS - 1) |-> "Released"]

\* Keys::input(key, status): the array after the call; indexing keys_status
\* outside 0..15 panics
KeysInput(keys, key, status) ==
    IF key > NUM_KEYS THEN [keys_status |-> keys, panicked |-> FALSE]
    ELSE IF key \in DOMAIN keys
         THEN [keys_status |-> [keys EXCEPT ![key] = status], panicked |-> FALSE]
         ELSE [keys_status |-> keys, panicked |-> TRUE]

\* Keys::get_status(key): the Option returned, as a sequence of no or one
\* KeyStatus
KeysGetStatus(keys, key) ==
    IF key > NUM_KEYS THEN [returned |-> << >>, panicked |-> FALSE]
    ELSE IF key \in DOMAIN keys
         THEN [returned |-> << keys[key] >>, panicked |-> FALSE]
         ELSE [returned |-> << >>, panicked |-> TRUE]

(***************************************************************************)
(* A Display of its own, driven through its public methods                 *)
(***************************************************************************)
\* bound on the number of calls made on an object of its own
MaxCalls == 3

\* the side of the square displays of display.rs's tests: Display::new(8, 8)
TestDisplaySize == 8

\* x and y of draw_sprite: inside the grid, and beyond it (13 % 8 = 5, 15 % 8 = 7)
SpriteColumns == { 0, 13 }

SpriteRows == { 0, 15 }

\* sprite data: none, a blank row, a bit at either end of a row, two rows
Sprites == { << >>, << \H00 >>, << \H01 >>, << \H81 >>, << \HFF, \H3C >> }

\* the Display as one record of the state variables
TheDisplay == [display_buffer |-> display_buffer, dirty |-> dirty]

\* the variables a call on the Display leaves alone
nonDisplayVars ==
    <<memory, general, i, delay, sound, stack, stack_pointer, program_counter, result,
      steps, call_depth, instruction_bytes, instruction, program_bytes, keys_status,
      cli>>

\* Display::new(8, 8) has returned
DisplayInit ==
    /\ display_buffer = DisplayNew(TestDisplaySize, TestDisplaySize).display_buffer
    /\ dirty = DisplayNew(TestDisplaySize, TestDisplaySize).dirty
    /\ calls = << >>
    /\ keys_status = NoProcessor
    /\ cli = NoProcessor
    /\ memory = NoProcessor
    /\ general = NoProcessor
    /\ i = NoProcessor
    /\ delay = NoProcessor
    /\ sound = NoProcessor
    /\ stack = NoProcessor
    /\ stack_pointer = NoProcessor
    /\ program_counter = NoProcessor
    /\ program_bytes = NoProcessor
    /\ result = NoResult
    /\ steps = 0
    /\ call_depth = 0
    /\ instruction_bytes = 0
    /\ instruction = Undecoded

\* display.draw_sprite(x, y, data)
DrawSpriteCall ==
    /\ Len(calls) < MaxCalls
    /\ \E x \in SpriteColumns, y \in SpriteRows, data \in Sprites :
          \E out \in {DrawSprite(TheDisplay, x, y, data)} :
              /\ display_buffer' = out.display.display_buffer
              /\ dirty' = out.display.dirty
              /\ calls' = Append(calls,
                                 [op |-> "draw_sprite", x |-> x, y |-> y, data |-> data,
                                  before |-> display_buffer,
                                  returned |-> IF out.disabled THEN "SomePixels"
                                               ELSE "NoPixels"])
    /\ UNCHANGED nonDisplayVars

\* display.clear()
ClearCall ==
    /\ Len(calls) < MaxCalls
    /\ display_buffer' = DisplayClear(TheDisplay).display_buffer
    /\ dirty' = DisplayClear(TheDisplay).dirty
    /\ calls' = Append(calls, [op |-> "clear"])
    /\ UNCHANGED nonDisplayVars

\* display.get_display_buffer()
GetDisplayBufferCall ==
    /\ Len(calls) < MaxCalls
    /\ \E out \in {GetDisplayBuffer(TheDisplay)} :
          /\ display_buffer' = out.display.display_buffer
          /\ dirty' = out.display.dirty
          /\ calls' = Append(calls,
                             [op |-> "get_display_buffer",
                              returned |-> IF out.returned = << >> THEN "None"
                                           ELSE "Some"])
    /\ UNCHANGED nonDisplayVars

DisplayNext == DrawSpriteCall \/ ClearCall \/ GetDisplayBufferCall

DisplaySpec == DisplayInit /\ [][DisplayNext]_vars

(***************************************************************************)
(* A Keys of its own, driven through its methods                           *)
(***************************************************************************)
\* the key indices of the calls: the first, the last, and those beyond the keypad
KeyIndices == { 0, 1, NUM_KEYS - 1, NUM_KEYS, NUM_KEYS + 1, 255 }

\* the variables a call on Keys leaves alone
nonKeysVars ==
    <<procVars, result, steps, call_depth, instruction_bytes, instruction, program_bytes,
      cli>>

\* no processor, decoder or thread is part of the run
NoMachine ==
    /\ memory = NoProcessor
    /\ general = NoProcessor
    /\ i = NoProcessor
    /\ delay = NoProcessor
    /\ sound = NoProcessor
    /\ stack = NoProcessor
    /\ stack_pointer = NoProcessor
    /\ program_counter = NoProcessor
    /\ display_buffer = NoProcessor
    /\ dirty = NoProcessor
    /\ program_bytes = NoProcessor
    /\ result = NoResult
    /\ steps = 0
    /\ call_depth = 0
    /\ instruction_bytes = 0
    /\ instruction = Undecoded
    /\ cli = NoProcessor

\* Keys::new() has returned
KeypadInit ==
    /\ keys_status = KeysNew
    /\ calls = << >>
    /\ NoMachine

\* a call has panicked: the thread that made it is unwinding
Panicked == calls # << >> /\ calls[Len(calls)].panicked

\* keys.input(key, status)
InputCall ==
    /\ Len(calls) < MaxCalls
    /\ ~Panicked
    /\ \E key \in KeyIndices, status \in KeyStatus :
          \E out \in {KeysInput(keys_status, key, status)} :
              /\ keys_status' = out.keys_status
              /\ calls' = Append(calls, [op |-> "input", key |-> key, status |-> status,
                                         returned |-> << >>,
                                         panicked |-> out.panicked])
    /\ UNCHANGED nonKeysVars

\* keys.get_status(key)
GetStatusCall ==
    /\ Len(calls) < MaxCalls
    /\ ~Panicked
    /\ \E key \in KeyIndices :
          \E out \in {KeysGetStatus(keys_status, key)} :
              /\ calls' = Append(calls, [op |-> "get_status", key |-> key,
                                         status |-> "Released",
                                         returned |-> out.returned,
                                         panicked |-> out.panicked])
    /\ UNCHANGED <<keys_status, nonKeysVars>>

KeypadNext == InputCall \/ GetStatusCall

KeypadSpec == KeypadInit /\ [][KeypadNext]_vars

(***************************************************************************)
(* A Registers of its own: the timers are set, then ticked                 *)
(***************************************************************************)
\* the values the pub fields delay and sound are set to (123 in registers.rs's
\* tests)
TimerValues == { 0, 1, 2, 3, 123, 255 }

\* the general registers: as Registers::new leaves them, and all different
GeneralValues ==
    { [r \in 0..(NUM_GENERAL_REGISTERS - 1) |-> 0],
      [r \in 0..(NUM_GENERAL_REGISTERS - 1) |-> 16 * r + 1] }

\* the Registers as one record of the state variables
TheRegisters == [general |-> general, i |-> i, delay |-> delay, sound |-> sound]

\* Registers::new() has returned, and the timers and registers have been set;
\* the first entry of calls keeps the values they were set to
RegistersInit ==
    /\ general \in GeneralValues
    /\ i = 0
    /\ delay \in TimerValues
    /\ sound \in TimerValues
    /\ calls = << [op |-> "new", general |-> general, delay |-> delay, sound |-> sound] >>
    /\ keys_status = NoProcessor
    /\ cli = NoProcessor
    /\ memory = NoProcessor
    /\ stack = NoProcessor
    /\ stack_pointer = NoProcessor
    /\ program_counter = NoProcessor
    /\ display_buffer = NoProcessor
    /\ dirty = NoProcessor
    /\ program_bytes = NoProcessor
    /\ result = NoResult
    /\ steps = 0
    /\ call_depth = 0
    /\ instruction_bytes = 0
    /\ instruction = Undecoded

\* the variables a call on the Registers leaves alone
nonRegistersVars ==
    <<memory, stack, stack_pointer, program_counter, display_buffer, dirty, result, steps,
      call_depth, instruction_bytes, instruction, program_bytes, keys_status, cli>>

\* registers.decrement_delay(): one tick of the delay timer
DecrementDelayCall ==
    /\ Len(calls) < MaxCalls + 1
    /\ \E out \in {decrement_delay(TheRegisters)} :
          /\ general' = out.general
          /\ i' = out.i
          /\ delay' = out.delay
          /\ sound' = out.sound
    /\ calls' = Append(calls, [op |-> "decrement_delay"])
    /\ UNCHANGED nonRegistersVars

\* registers.decrement_sound(): one tick of the sound timer
DecrementSoundCall ==
    /\ Len(calls) < MaxCalls + 1
    /\ \E out \in {decrement_sound(TheRegisters)} :
          /\ general' = out.general
          /\ i' = out.i
          /\ delay' = out.delay
          /\ sound' = out.sound
    /\ calls' = Append(calls, [op |-> "decrement_sound"])
    /\ UNCHANGED nonRegistersVars

RegistersNext == DecrementDelayCall \/ DecrementSoundCall

RegistersSpec == RegistersInit /\ [][RegistersNext]_vars

(***************************************************************************)
(* The cli binary: main, the frontend's event loop on the main thread, the *)
(* interpreter thread and the timer thread, sharing exit_requested         *)
(***************************************************************************)
\* the step() calls and the frames sent are counted up to this bound and no
\* further
MaxCliSteps == 4

\* programs that clear a blank display twice, fail at once or after a step,
\* draw the glyph at I = 0 over and over, loop without drawing, and index
\* memory out of bounds
CliPrograms ==
    { << \H00E0, \H00E0, \H1204 >>, << \HFFFF >>, << \H6001, \HFFFF >>,
      << \HD005, \H1200 >>, << \H1200 >>, << \HAFFF, \HF055 >> }

\* count + 1, up to MaxCliSteps
CountUp(count) == IF count < MaxCliSteps THEN count + 1 ELSE count

\* main has spawned the interpreter thread and the timer thread and is about
\* to run the frontend; Chip8Interpreter::new has built the processor
CliInit ==
    \E program \in CliPrograms :
        \E q \in {ProcessorNew(Assemble(program))} :
            /\ program_bytes = Assemble(program)
            /\ keys_status = NoProcessor
            /\ calls = << >>
            /\ cli = [exit_requested |-> FALSE, interpreter |-> "loop_test",
                      timer |-> "loop_test", main |-> "frontend_run",
                      sent |-> << >>, frames_sent |-> 0]
            /\ memory = q.memory
            /\ general = q.general
            /\ i = q.i
            /\ delay = q.delay
            /\ sound = q.sound
            /\ stack = q.stack
            /\ stack_pointer = q.stack_pointer
            /\ program_counter = q.program_counter
            /\ display_buffer = q.display.display_buffer
            /\ dirty = q.display.dirty
            /\ result = NoResult
            /\ steps = 0
            /\ call_depth = 0
            /\ instruction_bytes = 0
            /\ instruction = Undecoded

\* main has not returned: the process and its threads are alive
ProcessAlive == cli.main \in {"frontend_run", "read_flag", "join_interpreter", "join_timer"}

\* the Receiver of the frame channel is a field of the Frontend, which
\* Frontend::run(self) consumes: it is dropped when run returns
FrameReceiverAlive == cli.main = "frontend_run"

\* what the interpreter thread changes besides the processor
stepVars == <<result, steps, call_depth, instruction_bytes, instruction>>

\* while !exit_requested.load(SeqCst): the loop is left when the flag is set
LoopTest_NeverLeaves(exit_requested, body) == body

LoopTest(exit_requested, body) == IF exit_requested THEN "returned" ELSE body

\* where Chip8Interpreter::run goes after step() returned Ok, although step()
\* returned an error
AfterStep_CarriesOn(outcome) ==
    IF outcome.type = "Panic" THEN "panicked" ELSE "frame"

\* where Chip8Interpreter::run goes after step(): on, to encountered_error, or
\* nowhere when step() panicked and the thread unwinds
AfterStep(outcome) ==
    IF outcome.type = "Ok" THEN "frame"
    ELSE IF outcome.type = "Panic" THEN "panicked"
    ELSE "error"

\* Chip8Interpreter::run, the loop condition
InterpreterLoopTest ==
    /\ ProcessAlive
    /\ cli.interpreter = "loop_test"
    /\ cli' = [cli EXCEPT !.interpreter = LoopTest(cli.exit_requested, "step")]
    /\ UNCHANGED <<procVars, stepVars, program_bytes, keys_status, calls>>

\* Chip8Interpreter::run, self.processor.step()
InterpreterStep ==
    /\ ProcessAlive
    /\ cli.interpreter = "step"
    /\ \E random_value \in RandomValues(Proc) :
        \E out \in {step(Proc, random_value)} :
            /\ ProcBecomes(out.proc)
            /\ result' = out.result
            /\ instruction_bytes' = out.bytes
            /\ instruction' = out.ins
            /\ call_depth' = CallDepthAfter(call_depth, out)
            /\ cli' = [cli EXCEPT !.interpreter = AfterStep(out.result)]
    /\ steps' = CountUp(steps)
    /\ UNCHANGED <<program_bytes, keys_status, calls>>

\* Chip8Interpreter::run, the rest of the loop body: a fresh frame is sent,
\* which fails when the receiver is gone, and the key events waiting are
\* taken with try_recv (no code under src/ sends one)
InterpreterFrame ==
    /\ ProcessAlive
    /\ cli.interpreter = "frame"
    /\ \E out \in {GetDisplayBuffer(TheDisplay)} :
          /\ display_buffer' = out.display.display_buffer
          /\ dirty' = out.display.dirty
          /\ cli' = IF out.returned = << >>
                    THEN [cli EXCEPT !.interpreter = "loop_test"]
                    ELSE IF FrameReceiverAlive
                    THEN [cli EXCEPT !.interpreter = "loop_test",
                                     !.sent = IF @ = << >> THEN out.returned
                                              ELSE << @[Len(@)] >> \o out.returned,
                                     !.frames_sent = CountUp(@)]
                    ELSE [cli EXCEPT !.interpreter = "error"]
    /\ UNCHANGED <<memory, general, i, delay, sound, stack, stack_pointer,
                   program_counter, stepVars, program_bytes, keys_status, calls>>

\* Chip8Interpreter::encountered_error, and the return that follows it
EncounteredError ==
    /\ ProcessAlive
    /\ cli.interpreter = "error"
    /\ cli' = [cli EXCEPT !.exit_requested = TRUE, !.interpreter = "returned"]
    /\ UNCHANGED <<procVars, stepVars, program_bytes, keys_status, calls>>

\* Timer::run, the loop condition
TimerLoopTest ==
    /\ ProcessAlive
    /\ cli.timer = "loop_test"
    /\ cli' = [cli EXCEPT !.timer = LoopTest(cli.exit_requested, "tick")]
    /\ UNCHANGED <<procVars, stepVars, program_bytes, keys_status, calls>>

\* Timer::run, the loop body: the ticks are sent on an unbounded channel, the
\* result of send is dropped, and the thread sleeps a millisecond
TimerTick ==
    /\ ProcessAlive
    /\ cli.timer = "tick"
    /\ cli' = [cli EXCEPT !.timer = "loop_test"]
    /\ UNCHANGED <<procVars, stepVars, program_bytes, keys_status, calls>>

\* Frontend::run, one call of the event handler that ends the event loop: the
\* flag is seen set; or rendering or resizing fails, which sets the flag; or
\* Escape or the close button, which does not. (A handler that redraws and
\* asks for the next redraw changes nothing here.)
FrontendEvent ==
    /\ cli.main = "frontend_run"
    /\ \E event \in {"render_error", "resize_error", "close_requested"} :
          cli' = IF cli.exit_requested \/ event = "close_requested"
                 THEN [cli EXCEPT !.main = "read_flag"]
                 ELSE [cli EXCEPT !.main = "read_flag", !.exit_requested = TRUE]
    /\ UNCHANGED <<procVars, stepVars, program_bytes, keys_status, calls>>

\* main, after frontend.run(): if exit_requested.load(SeqCst)
MainReadFlag ==
    /\ cli.main = "read_flag"
    /\ cli' = [cli EXCEPT !.main = IF cli.exit_requested THEN "join_interpreter"
                                   ELSE "returned_ok"]
    /\ UNCHANGED <<procVars, stepVars, program_bytes, keys_status, calls>>

\* main, interpreter_thread.join().expect(..): waits for the thread, and
\* panics if the thread panicked
MainJoinInterpreter ==
    /\ cli.main = "join_interpreter"
    /\ cli.interpreter \in {"returned", "panicked"}
    /\ cli' = [cli EXCEPT !.main = IF cli.interpreter = "returned" THEN "join_timer"
                                   ELSE "panicked"]
    /\ UNCHANGED <<procVars, stepVars, program_bytes, keys_status, calls>>

\* main, timer_thread.join().expect(..), then return Err(..)
MainJoinTimer ==
    /\ cli.main = "join_timer"
    /\ cli.timer = "returned"
    /\ cli' = [cli EXCEPT !.main = "returned_err"]
    /\ UNCHANGED <<procVars, stepVars, program_bytes, keys_status, calls>>

InterpreterNext == InterpreterLoopTest \/ InterpreterStep \/ InterpreterFrame \/ EncounteredError

TimerNext == TimerLoopTest \/ TimerTick

MainNext == FrontendEvent \/ MainReadFlag \/ MainJoinInterpreter \/ MainJoinTimer

CliNext == InterpreterNext \/ TimerNext \/ MainNext

CliSpec == CliInit /\ [][CliNext]_vars

(***************************************************************************)
(* Properties                                                              *)
(***************************************************************************)
\* the transition is one whole call of step()
StepTaken == steps' = steps + 1

\* C1: every step() call returns Ok or one of the typed errors DecodeFailure,
\* StackOverflow, StackUnderflow, MemoryOverrun; it never aborts (panics).
C1_StepAlwaysReturns ==
    steps > 0 => result.type \in ({"Ok"} \cup ErrorTypes)

\* C2: a step() that returns an error leaves memory, the registers, I, the
\* timers, the stack, the stack pointer, the pc and the display as they were.
C2_ErrorLeavesStateUnchanged ==
    [][(StepTaken /\ result'.type \in ErrorTypes) => UNCHANGED procVars]_vars

\* C3: in every reachable state (also after a StackOverflow or StackUnderflow)
\* 0 <= sp < 16, and sp = 0 exactly when no call is waiting for its return.
C3_StackPointerInRange ==
    /\ stack_pointer \in 0..(STACK_SIZE - 1)
    /\ (stack_pointer = 0 <=> call_depth = 0)

\* C4: the pc, I and every stack slot are within 0x000..0xFFF in every
\* reachable state: the pc advance of 2 and the pc skip of 4 re-mask to 12 bits.
C4_AddressesAre12Bit ==
    /\ program_counter \in 0..\HFFF
    /\ i \in 0..\HFFF
    /\ \A slot \in DOMAIN stack : stack[slot] \in 0..\HFFF

\* the processor runs the program that is CALL 0x200 alone
RunsCallLoop == memory = InitialMemory(Assemble(<< \H2200 >>))

\* C5: Call returns StackOverflow exactly when the stack is full (the pointer
\* would reach 16), tagged with the pc of that Call; in the program CALL 0x200
\* the first 15 step() calls succeed and the 16th returns StackOverflow{0x200}.
C5_CallOverflowsWhenFull ==
    /\ [][(StepTaken /\ instruction'.op = "Call") =>
            /\ result'.type \in {"Ok", "StackOverflow"}
            /\ result'.type = "StackOverflow" <=> stack_pointer + 1 >= STACK_SIZE
            /\ result'.type = "StackOverflow" => result'.address = program_counter]_vars
    /\ [](RunsCallLoop =>
            /\ steps \in 1..15 => result = Ok
            /\ steps = 16 => result = StackOverflow(\H200))

C5_Witness == RunsCallLoop /\ steps = 16 /\ result = StackOverflow(\H200)

\* C6 as stated: in the program CALL 0x200, 16 executions of step() succeed and
\* StackOverflow is reported only by the call after them.
C6_SixteenCallsSucceed == (RunsCallLoop /\ steps \in 1..16) => result = Ok

\* C6 as amended: at most 15 return addresses are ever held (slot 0 of the 16
\* is never written); in the program CALL 0x200 exactly the first 15 step()
\* calls succeed, each saving 0x200 in the next slot, and every later call
\* reports StackOverflow tagged 0x200.
C6_FifteenCallsSucceed ==
    /\ call_depth \in 0..(STACK_SIZE - 1)
    /\ stack[0] = 0
    /\ RunsCallLoop =>
        /\ call_depth = (IF steps <= 15 THEN steps ELSE 15)
        /\ \A slot \in 1..call_depth : stack[slot] = \H200
        /\ steps \in 1..15 => result = Ok
        /\ steps >= 16 => result = StackOverflow(\H200)

C6_Witness == RunsCallLoop /\ call_depth = 15 /\ steps = 17 /\ result.type = "StackOverflow"

\* C7: Return with stack pointer 0 returns StackUnderflow tagged with the pc of
\* that Return; Return with stack pointer > 0 never returns StackUnderflow.
C7_ReturnUnderflowsWhenEmpty ==
    [][(StepTaken /\ instruction'.op = "Return") =>
        /\ stack_pointer = 0 =>
            /\ result' = StackUnderflow(program_counter)
            /\ program_counter' = program_counter
        /\ stack_pointer > 0 => result'.type # "StackUnderflow"]_vars

\* a Return that underflowed after an earlier call had returned
C7_Witness ==
    /\ instruction.op = "Return"
    /\ result = StackUnderflow(\H204)
    /\ steps = 4
    /\ call_depth = 0

\* C8: Draw of n bytes returns MemoryOverrun{pc} exactly when I + n > 0xFFF and
\* LoadBcd exactly when I + 3 > 0xFFF; otherwise the instruction succeeds, and
\* the range it reads or writes, [I, I + n) or [I, I + 3), lies in [0, 0xFFF).
C8_DrawAndBcdBoundsChecked ==
    [][(StepTaken /\ instruction'.op \in {"Draw", "LoadBcd"}) =>
        LET n == IF instruction'.op = "Draw" THEN instruction'.num_bytes ELSE 3
        IN  /\ i + n > \HFFF => result' = MemoryOverrun(program_counter)
            /\ i + n <= \HFFF =>
                /\ result' = Ok
                /\ \A a \in i..(i + n - 1) : a \in DOMAIN memory
                /\ \A a \in DOMAIN memory : a \notin i..(i + n - 1) => memory'[a] = memory[a]
                /\ instruction'.op = "Draw" => memory' = memory]_vars

\* a Draw whose sprite ends exactly at the ceiling 0xFFF has succeeded
C8_Witness ==
    /\ instruction.op = "Draw"
    /\ i + instruction.num_bytes = \HFFF
    /\ instruction.num_bytes > 0
    /\ result = Ok

\* C9: StoreRegisterRangeAtI{last} and LoadRegisterRangeFromI{last} return
\* MemoryOverrun tagged with the pc whenever I + last >= 0xFFF, and never
\* access memory outside the array (never abort on an index).
C9_RegisterRangeBoundsChecked ==
    [][(StepTaken /\ instruction'.op \in {"StoreRegisterRangeAtI", "LoadRegisterRangeFromI"}) =>
        /\ result'.type # "Panic"
        /\ i + instruction'.last >= \HFFF => result' = MemoryOverrun(program_counter)]_vars

GeneralRegisters == 0..15

Bytes == 0..255

Addresses == 0..\HFFF

\* the values of enum Instruction, one set of records per variant
Instructions ==
    [op : {"Clear", "Return"}]
    \cup [op : {"Sys", "Jump", "Call", "LoadI", "JumpPlusV0"}, addr : Addresses]
    \cup [op : {"SkipIfEqByte", "SkipIfNeqByte"}, reg : GeneralRegisters, value : Bytes]
    \cup [op : {"SkipIfEqReg", "SkipIfNeqReg"}, lhs : GeneralRegisters, rhs : GeneralRegisters]
    \cup [op : {"LoadValue", "AddValue"}, dest : GeneralRegisters, value : Bytes]
    \cup [op : {"LoadRegister", "Or", "And", "Xor", "AddRegister", "Subtract",
                "ShiftRight", "SubtractNegate", "ShiftLeft"},
          dest : GeneralRegisters, source : GeneralRegisters]
    \cup [op : {"Random"}, dest : GeneralRegisters, mask : Bytes]
    \cup [op : {"Draw"}, x : GeneralRegisters, y : GeneralRegisters, num_bytes : 0..15]
    \cup [op : {"SkipIfKeyDown", "SkipIfKeyUp"}, key_val : GeneralRegisters]
    \cup [op : {"LoadFromDelayTimer", "LoadFromKey"}, dest : GeneralRegisters]
    \cup [op : {"SetDelayTimer", "SetSoundTimer", "AddI", "LoadBcd"}, source : GeneralRegisters]
    \cup [op : {"LoadSpriteLocation"}, digit : GeneralRegisters]
    \cup [op : {"StoreRegisterRangeAtI", "LoadRegisterRangeFromI"}, last : GeneralRegisters]

\* C10: for every 16-bit value decode returns, without panicking, exactly one
\* result, a well-formed Instruction or None, and decoding the same value again
\* returns the same result.
C10_DecodeTotal ==
    /\ [](instruction # Undecoded => instruction \in Instructions \cup {None})
    /\ [][instruction # Undecoded => instruction' = instruction]_vars

\* both kinds of result occur: here a failure, for the value 0xFFFF
C10_Witness == instruction_bytes = \HFFFF /\ instruction = None

(***************************************************************************)
(* The fields of an opcode, by arithmetic on its 16-bit value              *)
(***************************************************************************)
OpFamily(opcode) == opcode \div 4096

OpX(opcode) == (opcode \div 256) % 16

OpY(opcode) == (opcode \div 16) % 16

OpN(opcode) == opcode % 16

OpKK(opcode) == opcode % 256

OpNNN(opcode) == opcode % 4096

Decoded == instruction # Undecoded

\* C11: in the families 5 and 9 every opcode whose low nibble is not 0 fails
\* to decode, and 5xy0 / 9xy0 decode to SkipIfEqReg / SkipIfNeqReg with
\* lhs = Vx and rhs = Vy.
C11_FiveAndNineNeedZeroNibble ==
    (Decoded /\ OpFamily(instruction_bytes) \in {5, 9}) =>
        IF OpN(instruction_bytes) # 0 THEN instruction = None
        ELSE instruction =
                [op |-> IF OpFamily(instruction_bytes) = 5 THEN "SkipIfEqReg"
                        ELSE "SkipIfNeqReg",
                 lhs |-> OpX(instruction_bytes), rhs |-> OpY(instruction_bytes)]

\* 0x9AB1 has been decoded, and is a failure
C11_Witness == instruction_bytes = \H9AB1 /\ instruction = None

\* the operation the trailing nibble of 8xyN selects, "None" where there is none
EightOperation(n) ==
    CASE n = 0 -> "LoadRegister"
      [] n = 1 -> "Or"
      [] n = 2 -> "And"
      [] n = 3 -> "Xor"
      [] n = 4 -> "AddRegister"
      [] n = 5 -> "Subtract"
      [] n = 6 -> "ShiftRight"
      [] n = 7 -> "SubtractNegate"
      [] n = 14 -> "ShiftLeft"
      [] OTHER -> "None"

\* C12: in the family 8 the trailing nibble N of 8xyN selects the operation,
\* with dest = Vx and source = Vy: 0 LoadRegister, 1 Or, 2 And, 3 Xor,
\* 4 AddRegister, 5 Subtract, 6 ShiftRight, 7 SubtractNegate, E ShiftLeft; and
\* every 8xyN with N in {8, 9, A, B, C, D, F} fails to decode.
C12_EightSelectsByTrailingNibble ==
    (Decoded /\ OpFamily(instruction_bytes) = 8) =>
        IF OpN(instruction_bytes) \in {8, 9, 10, 11, 12, 13, 15}
        THEN instruction = None
        ELSE instruction =
                [op |-> EightOperation(OpN(instruction_bytes)),
                 dest |-> OpX(instruction_bytes), source |-> OpY(instruction_bytes)]

\* 0x8127 has been decoded: SubtractNegate of V1 and V2
C12_Witness ==
    /\ instruction_bytes = \H8127
    /\ instruction = [op |-> "SubtractNegate", dest |-> 1, source |-> 2]

\* the instruction a trailing byte of Fxkk selects, "None" where there is none
FifteenOperation(kk) ==
    CASE kk = \H07 -> "LoadFromDelayTimer"
      [] kk = \H0A -> "LoadFromKey"
      [] kk = \H15 -> "SetDelayTimer"
      [] kk = \H18 -> "SetSoundTimer"
      [] kk = \H1E -> "AddI"
      [] kk = \H29 -> "LoadSpriteLocation"
      [] kk = \H33 -> "LoadBcd"
      [] kk = \H55 -> "StoreRegisterRangeAtI"
      [] kk = \H65 -> "LoadRegisterRangeFromI"
      [] OTHER -> "None"

\* the register of a decoded instruction of the families E and F, whatever
\* its field is called
RegisterOperand(ins) ==
    CASE ins.op \in {"SkipIfKeyDown", "SkipIfKeyUp"} -> ins.key_val
      [] ins.op \in {"LoadFromDelayTimer", "LoadFromKey"} -> ins.dest
      [] ins.op \in {"SetDelayTimer", "SetSoundTimer", "AddI", "LoadBcd"} -> ins.source
      [] ins.op = "LoadSpriteLocation" -> ins.digit
      [] ins.op \in {"StoreRegisterRangeAtI", "LoadRegisterRangeFromI"} -> ins.last

\* C13: in the family E only the trailing bytes 0x9E and 0xA1 decode, to
\* SkipIfKeyDown and SkipIfKeyUp; in the family F only 0x07, 0x0A, 0x15, 0x18,
\* 0x1E, 0x29, 0x33, 0x55 and 0x65 decode, each to its own instruction with the
\* register Vx; every other trailing byte, for every x, is a decode failure.
C13_KeyAndTimerFamilies ==
    LET kk == OpKK(instruction_bytes)
        expected ==
            IF OpFamily(instruction_bytes) = 14
            THEN CASE kk = \H9E -> "SkipIfKeyDown"
                   [] kk = \HA1 -> "SkipIfKeyUp"
                   [] OTHER -> "None"
            ELSE FifteenOperation(kk)
    IN  (Decoded /\ OpFamily(instruction_bytes) \in {14, 15}) =>
            /\ instruction.op = expected
            /\ expected = "None" => instruction = None
            /\ expected # "None" =>
                    /\ RegisterOperand(instruction) = OpX(instruction_bytes)
                    /\ DOMAIN instruction \in
                            { {"op", f} : f \in {"key_val", "dest", "source", "digit", "last"} }

\* 0xF515 has been decoded although its trailing nibble alone would not do:
\* SetDelayTimer from V5
C13_Witness ==
    instruction_bytes = \HF515 /\ instruction = [op |-> "SetDelayTimer", source |-> 5]

\* this step() call fetched and decoded an opcode
StepDecoded == StepTaken /\ instruction' # Undecoded

\* C14: in the family 0, 0x00E0 decodes to Clear, 0x00EE to Return and every
\* other opcode 0x0nnn to Sys{addr: nnn}; executing Sys is a no-op: the step
\* succeeds and changes nothing but the pc, which advances by 2.
C14_ZeroFamilyAndSysNoOp ==
    [][(StepDecoded /\ OpFamily(instruction_bytes') = 0) =>
           /\ instruction' =
                  CASE instruction_bytes' = \H00E0 -> [op |-> "Clear"]
                    [] instruction_bytes' = \H00EE -> [op |-> "Return"]
                    [] OTHER -> [op |-> "Sys", addr |-> OpNNN(instruction_bytes')]
           /\ instruction'.op = "Sys" =>
                  /\ result' = Ok
                  /\ program_counter' = program_counter + 2
                  /\ UNCHANGED <<memory, general, i, delay, sound, stack,
                                 stack_pointer, display_buffer, dirty>>]_vars

\* SYS 0xABC at 0x200 has been executed
C14_Witness ==
    /\ instruction = [op |-> "Sys", addr |-> \HABC]
    /\ result = Ok
    /\ program_counter = \H202

\* Processor::new returned Ok(processor)
Loaded == result.type # "ProgramTooLong"

\* C15: loading a program succeeds exactly when its length is at most
\* 0xFFF - 0x200 = 0xDFF bytes; a longer program fails with
\* ProgramTooLong{size}, size being the program's length, and no processor is
\* created.
C15_LoadsExactlyWhatFits ==
    /\ \HFFF - \H200 = \HDFF
    /\ Loaded <=> Len(program_bytes) <= \HDFF
    /\ Loaded => (steps = 0 => result = NoResult /\ program_counter = \H200)
    /\ ~Loaded =>
           /\ result = [type |-> "ProgramTooLong", size |-> Len(program_bytes)]
           /\ steps = 0
           /\ \A v \in {memory, general, i, delay, sound, stack, stack_pointer,
                         program_counter, display_buffer, dirty} : v = NoProcessor

\* a program of 0xE00 bytes has been refused
C15_Witness == Len(program_bytes) = \HE00 /\ result.type = "ProgramTooLong"

\* C16: a freshly constructed processor has the built-in 16-glyph font in the
\* memory bytes [0, 80), the program bytes at [0x200, 0x200 + len), every other
\* memory byte 0, pc = 0x200, stack pointer 0, all 16 general registers, I,
\* delay and sound equal to 0, and every display pixel Off.
C16_FreshProcessor ==
    (Loaded /\ steps = 0) =>
        /\ Len(HEX_SPRITE_DATA) = 16 * 5
        /\ LET program_end == \H200 + Len(program_bytes)
           IN  memory =
                   [a \in 0..(\HFFF - 1) |->
                       IF a < 80 THEN HEX_SPRITE_DATA[a + 1]
                       ELSE IF a >= \H200 /\ a < program_end
                            THEN program_bytes[a - \H200 + 1]
                            ELSE 0]
        /\ program_counter = \H200
        /\ stack_pointer = 0
        /\ general = [r \in 0..15 |-> 0]
        /\ i = 0
        /\ delay = 0
        /\ sound = 0
        /\ display_buffer.data = [k \in 0..(64 * 32 - 1) |-> "Off"]

\* a fresh processor whose program fills the memory up to its last byte
C16_Witness ==
    /\ Loaded
    /\ steps = 0
    /\ Len(program_bytes) = \HDFF
    /\ program_bytes[\HDFF] # 0
    /\ memory[\HFFE] = program_bytes[\HDFF]

\* C17: AddValue{dest, value} sets dest to (old dest + value) mod 256 and
\* leaves VF unchanged, for every dest other than VF and also when the sum
\* exceeds 255.
C17_AddValueWrapsWithoutCarry ==
    [][(StepDecoded /\ instruction'.op = "AddValue" /\ instruction'.dest # 15) =>
           /\ result' = Ok
           /\ general'[instruction'.dest] =
                  (general[instruction'.dest] + instruction'.value) % 256
           /\ general'[15] = general[15]]_vars

\* ADD VE, 0xFF with VE = 0xFF and VF = 0x56 has been executed: the sum 0x1FE
\* is stored as 0xFE and VF is still 0x56
C17_Witness ==
    /\ instruction = [op |-> "AddValue", dest |-> 14, value |-> \HFF]
    /\ result = Ok
    /\ general[14] = \HFE
    /\ general[15] = \H56

\* C18: after AddRegister{dest, source} VF is 1 if old dest + old source > 255
\* and 0 otherwise, whatever VF held before and also when dest or source is
\* VF; for dest other than VF, dest holds (old dest + old source) mod 256.
C18_AddRegisterCarry ==
    [][(StepDecoded /\ instruction'.op = "AddRegister") =>
           LET sum == general[instruction'.dest] + general[instruction'.source]
           IN  /\ result' = Ok
               /\ general'[15] = (IF sum > 255 THEN 1 ELSE 0)
               /\ instruction'.dest # 15 =>
                      general'[instruction'.dest] = sum % 256]_vars

\* ADD VF, V0 with V0 = 0xFF has been executed and has produced a carry: VF
\* holds the flag, not the sum
C18_Witness ==
    /\ instruction = [op |-> "AddRegister", dest |-> 15, source |-> 0]
    /\ result = Ok
    /\ general[0] = \HFF
    /\ general[15] = 1
    /\ program_bytes[2] = \HCC

\* the step executed Subtract or SubtractNegate
StepSubtracts == StepDecoded /\ instruction'.op \in {"Subtract", "SubtractNegate"}

\* dest - source for Subtract, source - dest for SubtractNegate
Minuend ==
    IF instruction'.op = "Subtract" THEN general[instruction'.dest]
    ELSE general[instruction'.source]

Subtrahend ==
    IF instruction'.op = "Subtract" THEN general[instruction'.source]
    ELSE general[instruction'.dest]

\* C19 as stated: Subtract{dest, source} stores (dest - source) mod 256 in dest
\* and SubtractNegate{dest, source} stores (source - dest) mod 256 in dest, for
\* every dest; in both, VF after the step is 1 exactly when the minuend is
\* greater than or equal to the subtrahend and 0 when a borrow occurred.
C19_DifferenceInEveryDest ==
    [][StepSubtracts =>
           /\ result' = Ok
           /\ general'[instruction'.dest] = (Minuend - Subtrahend + 256) % 256
           /\ general'[15] = (IF Minuend >= Subtrahend THEN 1 ELSE 0)]_vars

\* C19, amended: the difference is stored in dest for every dest other than
\* VF; VF after the step is 1 exactly when the minuend is greater than or
\* equal to the subtrahend and 0 when a borrow occurred, also when dest is VF,
\* where the flag replaces the difference.
C19_DifferenceInDestOtherThanVF ==
    [][StepSubtracts =>
           /\ result' = Ok
           /\ instruction'.dest # 15 =>
                  general'[instruction'.dest] = (Minuend - Subtrahend + 256) % 256
           /\ general'[15] = (IF Minuend >= Subtrahend THEN 1 ELSE 0)]_vars

\* SUB V1, V2 with V1 = 0x12 and V2 = 0x34 has been executed: V1 = 0xDE and
\* VF = 0
C19_Witness ==
    /\ instruction = [op |-> "Subtract", dest |-> 1, source |-> 2]
    /\ result = Ok
    /\ general[1] = \HDE
    /\ general[2] = \H34
    /\ general[15] = 0

\* the step executed ShiftRight or ShiftLeft on registers other than VF
StepShifts ==
    /\ StepDecoded
    /\ instruction'.op \in {"ShiftRight", "ShiftLeft"}
    /\ instruction'.dest # 15
    /\ instruction'.source # 15

\* dest and VF after a shift, from the old value of dest alone
ShiftedFromDest ==
    LET old == general[instruction'.dest]
    IN  /\ result' = Ok
        /\ general'[instruction'.dest] =
               (IF instruction'.op = "ShiftRight" THEN old \div 2 ELSE (old * 2) % 256)
        /\ general'[15] =
               (IF instruction'.op = "ShiftRight" THEN old % 2 ELSE old \div 128)

\* C20 as stated: ShiftRight{dest, source} sets dest to dest >> 1 and VF to the
\* pre-shift least-significant bit of dest; ShiftLeft{dest, source} sets dest
\* to (dest << 1) mod 256 and VF to the pre-shift most-significant bit of dest;
\* in both the source register's value has no influence on the result and the
\* source register is not modified, for every dest and source other than VF.
C20_ShiftsLeaveSource ==
    [][StepShifts =>
           /\ ShiftedFromDest
           /\ general'[instruction'.source] = general[instruction'.source]]_vars

\* C20, amended: dest and VF are as stated, from the old value of dest alone,
\* and the source register is not modified when it is another register than
\* dest (for dest and source other than VF).
C20_ShiftsLeaveOtherSource ==
    [][StepShifts =>
           /\ ShiftedFromDest
           /\ instruction'.source # instruction'.dest =>
                  general'[instruction'.source] = general[instruction'.source]]_vars

\* SHR V1, V2 with V1 = 0x01 and V2 = 0xFF has been executed: V1 = 0, VF = 1
\* and V2 is still 0xFF
C20_Witness ==
    /\ instruction = [op |-> "ShiftRight", dest |-> 1, source |-> 2]
    /\ result = Ok
    /\ program_bytes[2] = \H01
    /\ general[1] = 0
    /\ general[2] = \HFF
    /\ general[15] = 1

\* the step executed AddI
StepAddsI == StepDecoded /\ instruction'.op = "AddI"

\* C21 as stated: AddI{source} adds the 8-bit value of the source register to
\* I without masking the sum to 12 bits: after AddI executed with
\* I + Vx > 0xFFF, I holds the raw sum I + Vx, not the sum modulo 0x1000.
C21_AddIKeepsRawSum ==
    [][(StepAddsI /\ i + general[instruction'.source] > \HFFF) =>
           i' = i + general[instruction'.source]]_vars

\* C21, amended: AddI masks the sum to 12 bits at this step: I holds
\* (I + Vx) mod 0x1000, also when I + Vx > 0xFFF.
C21_AddIMasksSum ==
    [][StepAddsI =>
           /\ result' = Ok
           /\ i' = (i + general[instruction'.source]) % \H1000]_vars

\* LD V0, 0xFF; LD I, 0xFFF; ADD I, V0 has been executed: the sum 0x10FE is
\* stored as 0x0FE
C21_Witness ==
    /\ instruction = [op |-> "AddI", source |-> 0]
    /\ result = Ok
    /\ general[0] = \HFF
    /\ program_bytes[3] = \HAF
    /\ program_bytes[4] = \HFF
    /\ i = \H0FE

\* C22: for every byte b, to_bcd(b) is the three decimal digits
\* [b div 100, (b div 10) mod 10, b mod 10], and a successful LoadBcd{source}
\* writes these digits of Vsource to memory[I], memory[I+1], memory[I+2] and
\* changes no other memory byte and no register.
C22_LoadBcdWritesDecimalDigits ==
    [][(StepDecoded /\ instruction'.op = "LoadBcd" /\ result' = Ok) =>
           LET b == general[instruction'.source]
           IN  /\ memory' = [memory EXCEPT ![i] = b \div 100,
                                           ![i + 1] = (b \div 10) % 10,
                                           ![i + 2] = b % 10]
               /\ UNCHANGED <<general, i, delay, sound>>]_vars

\* LD B, V8 with V8 = 255 and I = 0x400 has been executed: 2, 5, 5
C22_Witness ==
    /\ instruction = [op |-> "LoadBcd", source |-> 8]
    /\ result = Ok
    /\ general[8] = 255
    /\ i = \H400
    /\ memory[\H400] = 2
    /\ memory[\H401] = 5
    /\ memory[\H402] = 5

\* every pixel of the display is Off
AllOff == \A k \in DOMAIN display_buffer.data : display_buffer.data[k] = "Off"

\* the last two calls drew the same sprite at the same position, and before
\* them the display was only cleared or read: it was all Off
DrewTwiceOnBlank ==
    /\ Len(calls) >= 2
    /\ calls[Len(calls)].op = "draw_sprite"
    /\ calls[Len(calls) - 1].op = "draw_sprite"
    /\ calls[Len(calls)].x = calls[Len(calls) - 1].x
    /\ calls[Len(calls)].y = calls[Len(calls) - 1].y
    /\ calls[Len(calls)].data = calls[Len(calls) - 1].data
    /\ \A k \in 1..(Len(calls) - 2) : calls[k].op \in {"clear", "get_display_buffer"}

\* the sprite of a draw_sprite call has a set bit that falls inside the
\* rows x cols grid: bit 7 of a byte is drawn at column x mod cols, byte k at
\* row (y mod rows) + k - 1
SpriteTouches(call, rows, cols) ==
    \E k \in 1..Len(call.data), bit \in 0..7 :
        /\ (call.data[k] \div (2 ^ (7 - bit))) % 2 = 1
        /\ (call.y % rows) + k - 1 < rows
        /\ (call.x % cols) + bit < cols

\* C23 as stated: starting from an all-Off display, drawing the same sprite
\* twice at the same position leaves every affected pixel Off again, and the
\* second draw reports SomePixels.
C23_SecondDrawDisables ==
    DrewTwiceOnBlank =>
        /\ AllOff
        /\ calls[Len(calls)].returned = "SomePixels"

\* C23, amended: every affected pixel is Off again, and the second draw
\* reports SomePixels exactly when the sprite has a set bit inside the grid;
\* a sprite without one affects no pixel and both draws report NoPixels.
C23_SecondDrawDisablesWhatWasDrawn ==
    DrewTwiceOnBlank =>
        /\ AllOff
        /\ calls[Len(calls) - 1].returned = "NoPixels"
        /\ calls[Len(calls)].returned =
               (IF SpriteTouches(calls[Len(calls)], display_buffer.rows,
                                 display_buffer.cols)
                THEN "SomePixels" ELSE "NoPixels")

\* the two-row sprite FF 3C has been drawn twice at (13, 0) on a fresh display
C23_Witness ==
    /\ Len(calls) = 2
    /\ DrewTwiceOnBlank
    /\ calls[2].data = << \HFF, \H3C >>
    /\ calls[2].x = 13
    /\ calls[2].returned = "SomePixels"
    /\ AllOff

\* call n is a get_display_buffer that returned the grid
ReturnedGrid(n) == calls[n].op = "get_display_buffer" /\ calls[n].returned = "Some"

\* the last call before call n that returned a grid, 0 (the construction) if
\* there is none
LastReturnedGrid(n) ==
    IF \E k \in 1..(n - 1) : ReturnedGrid(k)
    THEN CHOOSE k \in 1..(n - 1) :
             ReturnedGrid(k) /\ \A j \in (k + 1)..(n - 1) : ~ReturnedGrid(j)
    ELSE 0

\* a construction, clear or draw has happened since the last call before call
\* n that returned a grid
MutatedBefore(n) ==
    \/ LastReturnedGrid(n) = 0
    \/ \E j \in (LastReturnedGrid(n) + 1)..(n - 1) :
           calls[j].op \in {"clear", "draw_sprite"}

\* C24: the snapshot is gated by the dirty flag: every get_display_buffer
\* returns the grid if and only if a construction, clear or draw has happened
\* since the last call that returned a grid (so the first call on a fresh
\* display returns it, and the second of two consecutive calls returns
\* nothing), and the flag is set exactly when the next call would return it.
C24_SnapshotGatedByDirty ==
    /\ \A n \in 1..Len(calls) :
           calls[n].op = "get_display_buffer" =>
               (calls[n].returned = "Some" <=> MutatedBefore(n))
    /\ dirty <=> MutatedBefore(Len(calls) + 1)

\* a fresh display was read twice and then cleared: the first read returned
\* the grid, the second nothing, and the flag is set again
C24_Witness ==
    /\ Len(calls) = 3
    /\ ReturnedGrid(1)
    /\ calls[2].op = "get_display_buffer"
    /\ calls[2].returned = "None"
    /\ calls[3].op = "clear"
    /\ dirty

\* the transition is one call of Keys::input
InputTaken == Len(calls') = Len(calls) + 1 /\ calls'[Len(calls')].op = "input"

\* the transition is one call of Keys::get_status
GetStatusTaken == Len(calls') = Len(calls) + 1 /\ calls'[Len(calls')].op = "get_status"

\* C26: a key event with index 0..15 sets the latched status of exactly that
\* key and leaves the other 15 unchanged; a key event with any index greater
\* than 15 (16 included) is ignored: the keypad state is unchanged and no
\* abort occurs, and get_status for such an index returns nothing.
C26_KeyEventsLatchOrAreIgnored ==
    [][/\ InputTaken =>
            LET call == calls'[Len(calls')]
            IN  /\ ~call.panicked
                /\ keys_status' = [key \in 0..(NUM_KEYS - 1) |->
                                       IF key = call.key THEN call.status
                                       ELSE keys_status[key]]
       /\ GetStatusTaken =>
            LET call == calls'[Len(calls')]
            IN  /\ ~call.panicked
                /\ call.key > NUM_KEYS - 1 => call.returned = << >>
                /\ call.key <= NUM_KEYS - 1 => call.returned = << keys_status[call.key] >>]_vars

\* the number of calls of op made so far
RECURSIVE CallsOf(_, _)
CallsOf(op, n) ==
    IF n = 0 THEN 0
    ELSE CallsOf(op, n - 1) + (IF calls[n].op = op THEN 1 ELSE 0)

\* a timer set to value after ticks saturating decrements
Ticked(value, ticks) == IF value > ticks THEN value - ticks ELSE 0

\* C27: timer decrements saturate at zero: after n calls of decrement_delay
\* and m calls of decrement_sound the delay timer is max(0, old - n) and the
\* sound timer max(0, old - m), so one call lowers its timer by 1 when it is
\* non-zero, leaves it 0 when it is 0, and changes neither the other timer nor
\* any general register.
C27_TimersSaturateAtZero ==
    /\ delay = Ticked(calls[1].delay, CallsOf("decrement_delay", Len(calls)))
    /\ sound = Ticked(calls[1].sound, CallsOf("decrement_sound", Len(calls)))
    /\ general = calls[1].general
    /\ i = 0

\* a delay timer set to 1 was ticked twice and stays 0, next to a sound timer
\* of 123 ticked once
C27_Witness ==
    /\ calls[1].delay = 1
    /\ calls[1].sound = 123
    /\ CallsOf("decrement_delay", Len(calls)) = 2
    /\ CallsOf("decrement_sound", Len(calls)) = 1
    /\ delay = 0
    /\ sound = 122

\* C25: a frame is delivered to the frontend only on change: every frame the
\* interpreter loop sends, other than the first, has a pixel grid that
\* differs from the frame sent before it.
C25_FramesSentOnlyOnChange ==
    Len(cli.sent) = 2 => cli.sent[1] # cli.sent[2]

\* the last step() returned an error
StepFailed == result.type \notin {"None", "Ok", "Panic"}

\* C29: when step() returns an error inside the interpreter loop, the loop
\* sets the cancellation flag and returns: from the failing step on the loop
\* is in encountered_error or has returned with the flag set, no further
\* step() is executed and no frame is sent.
C29_FailedStepEndsLoop ==
    /\ [](StepFailed =>
            /\ cli.interpreter \in {"error", "returned"}
            /\ cli.interpreter = "returned" => cli.exit_requested)
    /\ [][StepFailed =>
            /\ steps' = steps
            /\ cli'.frames_sent = cli.frames_sent
            /\ cli'.sent = cli.sent
            /\ UNCHANGED <<procVars, result>>]_vars

\* LD V0, 1 was executed and sent the first frame, the next step() failed to
\* decode 0xFFFF, and the loop has returned with the flag set
C29_Witness ==
    /\ result = DecodeFailure(\HFFFF)
    /\ steps = 2
    /\ cli.frames_sent = 1
    /\ cli.interpreter = "returned"
    /\ cli.exit_requested

\* how many steps of its own a thread is from the end of its loop, once the
\* flag is set: 0 the loop has ended; 1 the loop condition, encountered_error
\* or the event handler comes next; 2 and 3 the body of the loop is under way
StepsToLoopEnd(place) ==
    CASE place \in {"returned", "panicked", "read_flag", "join_interpreter", "join_timer",
                    "returned_ok", "returned_err"} -> 0
      [] place \in {"loop_test", "error", "frontend_run"} -> 1
      [] place \in {"frame", "tick"} -> 2
      [] place = "step" -> 3

\* the thread moves from place `from` to place `to`, or stays, and a move
\* brings it nearer to the end of its loop
NearerLoopEnd(from, to) == to = from \/ StepsToLoopEnd(to) < StepsToLoopEnd(from)

\* the three loops have ended, or the process has
LoopsDone ==
    \/ ~ProcessAlive
    \/ /\ cli.interpreter \in {"returned", "panicked"}
       /\ cli.timer = "returned"
       /\ cli.main # "frontend_run"

\* a thread of a live process that is at a channel operation (the send and
\* try_recv of the interpreter, the send of the timer, the try_recv of the
\* event handler) has a step it can take
ChannelsNotBlocking ==
    /\ (ProcessAlive /\ cli.interpreter = "frame") => ENABLED InterpreterFrame
    /\ (ProcessAlive /\ cli.timer = "tick") => ENABLED TimerTick
    /\ cli.main = "frontend_run" => ENABLED FrontendEvent

\* C28: once the shared cancellation flag is set by any thread, it is never
\* cleared again; each of the three loops (interpreter step loop, timer loop,
\* frontend event loop) observes it and terminates: every step a thread takes
\* brings it nearer to the end of its loop, which it reaches after at most 3
\* steps of its own; and no thread is blocked on a channel send or receive.
C28_FlagEndsEveryLoop ==
    /\ [][cli.exit_requested =>
            /\ cli'.exit_requested
            /\ NearerLoopEnd(cli.interpreter, cli'.interpreter)
            /\ NearerLoopEnd(cli.timer, cli'.timer)
            /\ NearerLoopEnd(cli.main, cli'.main) \/ cli.main # "frontend_run"]_vars
    /\ [](cli.exit_requested => ChannelsNotBlocking)

\* the frontend set the flag while JP 0x200 was looping, both threads saw it
\* and returned, and main joined them
C28_Witness ==
    /\ program_bytes = << \H12, \H00 >>
    /\ cli.exit_requested
    /\ result.type = "Ok"
    /\ LoopsDone
    /\ cli.interpreter = "returned"
    /\ cli.timer = "returned"
    /\ cli.main = "returned_err"

\* C30: if the interpreter thread encounters a step() error at any point of a
\* run, the process exits with a non-zero status: main does not return Ok(())
\* after a step() has returned an error, whatever the interleaving of that
\* error with the frontend's exit and with main's read of the flag.
C30_StepErrorFailsProcess ==
    StepFailed => cli.main # "returned_ok"

\* the step executed the instruction `op` and returned Ok
StepExecuted(op) == StepTaken /\ result' = Ok /\ instruction'.op = op

\* the processor runs the three nested calls
RunsNestedCalls == memory = InitialMemory(Assemble(NestedCalls))

\* the pc after each step of the three nested calls: the calls made at 0x200,
\* 0x204, 0x208 are returned from to 0x20A, 0x206, 0x202
NestedCallsTrace == << \H204, \H208, \H20C, \H20A, \H206, \H202 >>

\* C31: Call and Return are inverse stack operations: a successful Call at A
\* sets pc to the target, raises the stack pointer by 1 and saves A on top of
\* the stack; a successful Return lowers the stack pointer by 1 and sets pc
\* to the saved A + 2; no other instruction touches the stack, so the Returns
\* of nested calls made at A1, ..., An resume at An + 2, ..., A1 + 2.
C31_CallAndReturnAreInverse ==
    /\ [][StepExecuted("Call") =>
            /\ program_counter' = instruction'.addr
            /\ stack_pointer' = stack_pointer + 1
            /\ stack' = [stack EXCEPT ![stack_pointer + 1] = program_counter]]_vars
    /\ [][StepExecuted("Return") =>
            /\ stack_pointer' = stack_pointer - 1
            /\ program_counter' = stack[stack_pointer] + 2
            /\ stack' = stack]_vars
    /\ [][(StepTaken /\ result' = Ok /\ instruction'.op \notin {"Call", "Return"}) =>
            /\ stack_pointer' = stack_pointer
            /\ stack' = stack]_vars
    /\ [](RunsNestedCalls /\ steps \in 1..6 =>
            /\ result = Ok
            /\ program_counter = NestedCallsTrace[steps]
            /\ stack_pointer = (IF steps <= 3 THEN steps ELSE 6 - steps))

\* the outermost of the three nested calls has been returned from
C31_Witness ==
    /\ RunsNestedCalls
    /\ steps = 6
    /\ instruction.op = "Return"
    /\ program_counter = \H202
    /\ stack_pointer = 0

\* the step returned Ok
StepSucceeded == StepTaken /\ result' = Ok

\* the pc after a successful step that is no JumpPlusV0, by the instruction
\* executed: Jump and Call set it to the address, Return to the saved call
\* site + 2, a skip adds 4 when its condition holds and 2 when not, every
\* other instruction adds 2
PcAfter(ins) ==
    CASE ins.op \in {"Jump", "Call"} -> ins.addr
      [] ins.op = "Return" -> stack[stack_pointer] + 2
      [] ins.op = "SkipIfEqByte" ->
            program_counter + (IF general[ins.reg] = ins.value THEN 4 ELSE 2)
      [] ins.op = "SkipIfNeqByte" ->
            program_counter + (IF general[ins.reg] # ins.value THEN 4 ELSE 2)
      [] ins.op = "SkipIfEqReg" ->
            program_counter + (IF general[ins.lhs] = general[ins.rhs] THEN 4 ELSE 2)
      [] ins.op = "SkipIfNeqReg" ->
            program_counter + (IF general[ins.lhs] # general[ins.rhs] THEN 4 ELSE 2)
      [] OTHER -> program_counter + 2

\* C32 as stated: every successful step() changes the pc in exactly one of
\* these ways: Jump and Call set it to the instruction's address, Return to
\* the saved call site + 2, a skip adds 4 when its condition holds and 2 when
\* it does not, and every other instruction adds exactly 2.
C32_PcChangesByInstruction ==
    [][StepSucceeded => program_counter' = PcAfter(instruction')]_vars

\* C32, amended: as stated, with JumpPlusV0 among the jumps: it sets the pc
\* to (addr + V0) masked to 12 bits; so n steps over non-branching
\* instructions from pc0 end at pc0 + 2n (the empty program, all SYS 0).
C32_PcChangesByInstructionOrJumpPlusV0 ==
    /\ [][StepSucceeded =>
            program_counter' =
                (IF instruction'.op = "JumpPlusV0"
                 THEN (instruction'.addr + general[0]) % \H1000
                 ELSE PcAfter(instruction'))]_vars
    /\ [](program_bytes = << >> => program_counter = PROGRAM_START + 2 * steps)

\* SNE V0, V1 with V0 = 0xFF and V1 = 0x01 has skipped the next instruction
C32_Witness ==
    /\ instruction.op = "SkipIfNeqReg"
    /\ result = Ok
    /\ steps = 3
    /\ general[0] = \HFF
    /\ general[1] = \H01
    /\ program_counter = \H208

\* C33: a successful StoreRegisterRangeAtI{last = Vn} copies V0..Vn to
\* memory[I], ..., memory[I+n] in register order and changes no other memory
\* byte; a successful LoadRegisterRangeFromI{last = Vn} copies memory[I..I+n]
\* into V0..Vn and changes no register above Vn; both leave I and the memory
\* outside the range unchanged.
C33_RegisterRangeCopies ==
    /\ [][StepExecuted("StoreRegisterRangeAtI") =>
            /\ memory' = [a \in DOMAIN memory |->
                              IF a \in i..(i + instruction'.last) THEN general[a - i]
                              ELSE memory[a]]
            /\ i' = i]_vars
    /\ [][StepExecuted("LoadRegisterRangeFromI") =>
            /\ general' = [r \in DOMAIN general |->
                               IF r <= instruction'.last THEN memory[i + r]
                               ELSE general[r]]
            /\ memory' = memory
            /\ i' = i]_vars

\* LD [I], V2 has stored 0xA1, 0xB2, 0xC3 at 0x300..0x302 and not VF
C33_Witness ==
    /\ instruction.op = "StoreRegisterRangeAtI"
    /\ instruction.last = 2
    /\ result = Ok
    /\ i = \H300
    /\ memory[\H300] = \HA1
    /\ memory[\H301] = \HB2
    /\ memory[\H302] = \HC3
    /\ memory[\H303] = 0
    /\ general[15] = \HF4

\* the transition is one call of Display::draw_sprite
DrawSpriteTaken ==
    Len(calls') = Len(calls) + 1 /\ calls'[Len(calls')].op = "draw_sprite"

\* a set bit of the sprite of a draw_sprite call is applied to the cell
\* (row, col) of a rows x cols grid: bit j (most significant first) of byte k
\* (from 0) goes to row (y mod rows) + k and column (x mod cols) + j
SpriteBitAt(call, row, col, rows, cols) ==
    \E k \in 0..(Len(call.data) - 1), j \in 0..7 :
        /\ (call.data[k + 1] \div (2 ^ (7 - j))) % 2 = 1
        /\ row = (call.y % rows) + k
        /\ col = (call.x % cols) + j

Toggled(pixel) == IF pixel = "On" THEN "Off" ELSE "On"

\* C34: draw_sprite(x, y, data) on a width x height grid applies byte k of
\* data to row (y mod height) + k and bit j of the byte (most significant
\* first) to column (x mod width) + j; bits whose column is >= width and
\* bytes whose row is >= height are dropped, not wrapped; each applied set
\* bit toggles its pixel and every other pixel of the grid is unchanged.
C34_DrawSpriteGeometry ==
    [][DrawSpriteTaken =>
        LET call == calls'[Len(calls')]
            rows == display_buffer.rows
            cols == display_buffer.cols
        IN  display_buffer' =
                [display_buffer EXCEPT !.data =
                    [cell \in DOMAIN @ |->
                        IF SpriteBitAt(call, cell \div cols, cell % cols, rows, cols)
                        THEN Toggled(@[cell]) ELSE @[cell]]]]_vars

\* FF 3C drawn at (13, 15) of the 8 x 8 display: the three leftmost bits of
\* FF are on in row 7 from column 5, the rest and the second byte are dropped
C34_Witness ==
    /\ Len(calls) = 1
    /\ calls[1].op = "draw_sprite"
    /\ calls[1].x = 13
    /\ calls[1].y = 15
    /\ calls[1].data = << \HFF, \H3C >>
    /\ display_buffer.data =
           [cell \in 0..63 |-> IF cell \in {61, 62, 63} THEN "On" ELSE "Off"]

\* C35: draw_sprite reports SomePixels if and only if at least one pixel that
\* was On before the call was turned Off by the call, and NoPixels otherwise
\* (every toggled pixel was Off before, or all set bits were clipped).
C35_SomePixelsIffPixelTurnedOff ==
    [][DrawSpriteTaken =>
        LET returned == calls'[Len(calls')].returned
            turned_off == \E cell \in DOMAIN display_buffer.data :
                              /\ display_buffer.data[cell] = "On"
                              /\ display_buffer'.data[cell] = "Off"
        IN  /\ returned \in {"SomePixels", "NoPixels"}
            /\ (returned = "SomePixels") <=> turned_off]_vars

\* 81 and then FF 3C drawn at (0, 0): the first row of the second sprite
\* turns the two pixels of the first off, its second row turns none off
C35_Witness ==
    /\ Len(calls) = 2
    /\ calls[1] = [op |-> "draw_sprite", x |-> 0, y |-> 0, data |-> << \H81 >>,
                   before |-> calls[1].before, returned |-> "NoPixels"]
    /\ calls[2].op = "draw_sprite"
    /\ calls[2].data = << \HFF, \H3C >>
    /\ calls[2].x = 0
    /\ calls[2].y = 0
    /\ calls[2].returned = "SomePixels"
    /\ display_buffer.data[0] = "Off"
    /\ display_buffer.data[7] = "Off"
    /\ display_buffer.data[1] = "On"

\* the last two calls are draw_sprite calls with the same x, y and data
DrawnTwice ==
    /\ Len(calls) >= 2
    /\ calls[Len(calls)].op = "draw_sprite"
    /\ calls[Len(calls) - 1].op = "draw_sprite"
    /\ calls[Len(calls)].x = calls[Len(calls) - 1].x
    /\ calls[Len(calls)].y = calls[Len(calls) - 1].y
    /\ calls[Len(calls)].data = calls[Len(calls) - 1].data

\* C37: draw_sprite is an involution on the pixel grid: from any display
\* contents, two consecutive draw_sprite calls with the same x, y and data
\* leave the grid exactly as it was before the first call.
C37_DrawSpriteIsInvolution ==
    DrawnTwice => display_buffer = calls[Len(calls) - 1].before

\* over the pixels left by 81 at (0, 0), FF 3C is drawn twice at (0, 0): the
\* first draw changes the grid and reports a collision, the second reports
\* one too and gives back the grid of 81
C37_Witness ==
    /\ Len(calls) = 3
    /\ DrawnTwice
    /\ calls[3].data = << \HFF, \H3C >>
    /\ calls[2].returned = "SomePixels"
    /\ calls[3].returned = "SomePixels"
    /\ calls[2].before.data[0] = "On"
    /\ calls[3].before.data[0] = "Off"
    /\ calls[3].before.data[1] = "On"
    /\ display_buffer.data[0] = "On"
    /\ display_buffer.data[1] = "Off"
    /\ display_buffer.data[7] = "On"

\* the draw of the step turned at least one On pixel Off
DrawCollided ==
    \E cell \in DOMAIN display_buffer.data :
        display_buffer.data[cell] = "On" /\ display_buffer'.data[cell] = "Off"

\* C36: after a successful Draw step VF holds the collision result of the
\* sprite draw: 1 if the draw turned at least one On pixel Off, 0 otherwise.
C36_DrawSetsVfToCollision ==
    [][StepExecuted("Draw") =>
        general'[15] = IF DrawCollided THEN 1 ELSE 0]_vars

\* memory[..HEX_SPRITE_DATA.len()] is as Processor::new left it
FontUnmodified ==
    \A a \in 0..(Len(HEX_SPRITE_DATA) - 1) : memory[a] = HEX_SPRITE_DATA[a + 1]

\* C38: LoadSpriteLocation{digit = Vx} sets I to (Vx and 0x0F) * 5, using
\* only the low nibble of the register, so that for an unmodified font area
\* memory[I .. I+5) is the built-in glyph of that hexadecimal digit; no other
\* register changes.
C38_SpriteLocationOfLowNibble ==
    [][StepExecuted("LoadSpriteLocation") =>
        LET hex_digit == general[instruction'.digit] % 16
        IN  /\ i' = hex_digit * 5
            /\ general' = general
            /\ delay' = delay
            /\ sound' = sound
            /\ FontUnmodified =>
                 \A k \in 0..4 :
                     memory'[i' + k] = HEX_SPRITE_DATA[HEX_SPRITE_STRIDE * hex_digit + k + 1]]_vars

\* LD V5, 0xF3; LD F, V5: I = 15 is the address of the glyph of 3
C38_Witness ==
    /\ steps = 2
    /\ result = Ok
    /\ instruction.op = "LoadSpriteLocation"
    /\ instruction.digit = 5
    /\ general[5] = \HF3
    /\ i = 15
    /\ << memory[15], memory[16], memory[17], memory[18], memory[19] >>
           = << \HF0, \H10, \HF0, \H10, \HF0 >>

\* C39: JumpPlusV0{addr} sets the pc to (addr + V0) masked to 12 bits, does
\* not advance it further, and leaves the stack pointer, the stack and every
\* register unchanged.
C39_JumpPlusV0MasksTheSum ==
    [][StepExecuted("JumpPlusV0") =>
        /\ program_counter' = (instruction'.addr + general[0]) % \H1000
        /\ stack_pointer' = stack_pointer
        /\ stack' = stack
        /\ general' = general
        /\ i' = i
        /\ delay' = delay
        /\ sound' = sound]_vars

\* LD V0, 0xFF; LD VE, 0x5A; JP V0, 0xF01: the sum 0x1000 is masked to 0x000
C39_Witness ==
    /\ steps = 3
    /\ result = Ok
    /\ instruction.op = "JumpPlusV0"
    /\ instruction.addr = \HF01
    /\ general[0] = \HFF
    /\ general[14] = \H5A
    /\ program_counter = 0
    /\ stack_pointer = 0

\* the instruction variant of the families that carry an address, and of
\* those that carry a register and a byte
AddrFamilyOp(family) ==
    CASE family = 1 -> "Jump" [] family = 2 -> "Call"
      [] family = 10 -> "LoadI" [] family = 11 -> "JumpPlusV0"

ByteFamilyOp(family) ==
    CASE family = 3 -> "SkipIfEqByte" [] family = 4 -> "SkipIfNeqByte"
      [] family = 6 -> "LoadValue" [] family = 7 -> "AddValue"
      [] family = 12 -> "Random"

\* C40: operand fields are extracted from fixed bit positions of the opcode:
\* families 1, 2, A, B carry addr = opcode and 0x0FFF; families 3, 4, 6, 7, C
\* carry the register V(second nibble) and the low byte as value or mask;
\* family D carries x = V(second nibble), y = V(third nibble) and num_bytes =
\* the fourth nibble; this holds for every operand value of each family.
C40_OperandFieldsAtFixedBits ==
    Decoded =>
        LET opcode == instruction_bytes
            family == OpFamily(opcode)
        IN  /\ family \in {1, 2, 10, 11} =>
                instruction = [op |-> AddrFamilyOp(family), addr |-> OpNNN(opcode)]
            /\ family \in {3, 4} =>
                instruction = [op |-> ByteFamilyOp(family), reg |-> OpX(opcode),
                               value |-> OpKK(opcode)]
            /\ family \in {6, 7} =>
                instruction = [op |-> ByteFamilyOp(family), dest |-> OpX(opcode),
                               value |-> OpKK(opcode)]
            /\ family = 12 =>
                instruction = [op |-> "Random", dest |-> OpX(opcode),
                               mask |-> OpKK(opcode)]
            /\ family = 13 =>
                instruction = [op |-> "Draw", x |-> OpX(opcode), y |-> OpY(opcode),
                               num_bytes |-> OpN(opcode)]

\* DRW VA, VB, 5
C40_Witness ==
    /\ instruction_bytes = \HDAB5
    /\ instruction = [op |-> "Draw", x |-> 10, y |-> 11, num_bytes |-> 5]

====
